---- MODULE Spec2Model ----
(***************************************************************************)
(* HAR flow analyzer (har-to-yaml): the processing pipeline                *)
(*   filter -> sort -> parseEntry -> detectDependencies -> render          *)
(* and the page's event handlers, as a state machine.                      *)
(*                                                                         *)
(* JavaScript strings are sequences of one-character strings, so that      *)
(* length, prefix tests and String.prototype.includes are computed.        *)
(* JavaScript values are tagged records [t, v].                            *)
(***************************************************************************)
EXTENDS Integers, Sequences, FiniteSets, TLC

VARIABLES
    \* ---- page state (part_001:471-472 and the DOM refs 500-511)
    rawHar,          \* let rawHar: null, or the value JSON.parse returned
    fileName,        \* let fileName
    enabledTypes,    \* the values of the checked boxes of #resourceTypeFilters
    excludePatterns, \* #excludePatterns.value
    showAllHeaders,  \* #showAllHeaders.checked
    uploadHidden,    \* uploadSection.hidden
    resultsHidden,   \* resultsSection.hidden
    errorVisible,    \* errorEl.classList has 'visible'
    errorText,       \* errorEl.textContent
    statsEl,         \* statsEl.innerHTML
    yamlOutput,      \* yamlOutput.textContent
    mermaidOutput,   \* mermaidOutput.innerHTML
    requestsList,    \* requestsList.innerHTML
    \* ---- pending asynchronous work
    reads,           \* files whose FileReader has not called onload yet
    renders,         \* diagram sources whose mermaid.render is pending
    timer,           \* the debounce closure's timer is set
    timerLeft,       \* milliseconds until the set timer expires
    \* ---- locals of the last pipeline run (process / detectDependencies)
    filtered,        \* const filtered
    requests,        \* const requests (Request Records)
    deps,            \* const deps (Dependency Edges)
    valueMap,        \* const valueMap (the Value Index)
    graph,           \* let graph (renderMermaid)
    i,               \* the loop counter of detectDependencies
    pc,              \* where a step-by-step run stands
    \* ---- the Jira/Markdown converter page (jiradown/script.js:314-321)
    jiraInput,       \* jiraInput.value
    mdInput,         \* mdInput.value
    isConverting,    \* let isConverting
    activePane,      \* let activePane: "none" for null, "jira" or "md"
    \* ---- history (not program state)
    lastRun,         \* the inputs of the last completed process()
    rerun,           \* whether that run repeated the inputs of the run
                     \* before it, and whether it gave the same outputs
    lastEdited,      \* the pane the user edited last: "none", "jira", "md"
    burst            \* the input events of #excludePatterns since the timer
                     \* was last idle: how many (2: two or more), the
                     \* milliseconds since the last one, and the calls of
                     \* reprocess the timer has made since the first one

vars == <<rawHar, fileName, enabledTypes, excludePatterns, showAllHeaders,
          uploadHidden, resultsHidden, errorVisible, errorText, statsEl,
          yamlOutput, mermaidOutput, requestsList, reads, renders, timer,
          filtered, requests, deps, valueMap, graph, i, pc,
          jiraInput, mdInput, isConverting, activePane,
          lastRun, rerun, lastEdited, timerLeft, burst>>

jiraVars == <<jiraInput, mdInput, isConverting, activePane, lastEdited>>

timeVars == <<timerLeft, burst>>

pageVars == <<rawHar, fileName, enabledTypes, excludePatterns, showAllHeaders,
              uploadHidden, resultsHidden, errorVisible, errorText, statsEl,
              yamlOutput, mermaidOutput, requestsList, reads, renders, timer,
              graph, lastRun, rerun, jiraVars, timeVars>>

-----------------------------------------------------------------------------
(* Bounds of the model *)

\* longest trace (number of transactions) the dependency and filter
\* specifications draw
MaxRecords == 3

-----------------------------------------------------------------------------
(* Strings *)

\* String.prototype.includes
Includes(val, sub) ==
    \E p \in 0..(Len(val) - Len(sub)) : SubSeq(val, p + 1, p + Len(sub)) = sub

\* String.prototype.startsWith / endsWith
StartsWith(s, pre) == Len(s) >= Len(pre) /\ SubSeq(s, 1, Len(pre)) = pre
EndsWith(s, suf) ==
    Len(s) >= Len(suf) /\ SubSeq(s, Len(s) - Len(suf) + 1, Len(s)) = suf

\* first position (1-based) at or after `from` where sub occurs, 0 if none
IndexOfFrom(s, sub, from) ==
    LET hits == {p \in from..(Len(s) - Len(sub) + 1) :
                    SubSeq(s, p, p + Len(sub) - 1) = sub}
    IN  IF hits = {} THEN 0 ELSE CHOOSE p \in hits : \A q \in hits : p <= q

DigitChars == <<"0","1","2","3","4","5","6","7","8","9">>
IsDigit(c) == \E k \in 1..10 : DigitChars[k] = c

\* template-literal rendering of a non-negative integer: `${i}`
RECURSIVE Digits(_)
Digits(n) ==
    IF n < 10 THEN <<DigitChars[n + 1]>>
    ELSE Digits(n \div 10) \o <<DigitChars[(n % 10) + 1]>>

UpperToLower ==
    [A |-> "a", B |-> "b", C |-> "c", D |-> "d", E |-> "e", F |-> "f",
     G |-> "g", H |-> "h", I |-> "i", J |-> "j", K |-> "k", L |-> "l",
     M |-> "m", N |-> "n", O |-> "o", P |-> "p", Q |-> "q", R |-> "r",
     S |-> "s", T |-> "t", U |-> "u", V |-> "v", W |-> "w", X |-> "x",
     Y |-> "y", Z |-> "z"]

\* String.prototype.toLowerCase
ToLowerCase(s) ==
    [k \in 1..Len(s) |->
        IF s[k] \in DOMAIN UpperToLower THEN UpperToLower[s[k]] ELSE s[k]]

\* /^\d{4}-\d{2}-\d{2}/.test(s)
IsDatePrefixed(s) ==
    /\ Len(s) >= 10
    /\ \A k \in {1, 2, 3, 4, 6, 7, 9, 10} : IsDigit(s[k])
    /\ s[5] = "-"
    /\ s[8] = "-"

\* /^https?:\/\//.test(s)
IsUrlPrefixed(s) ==
    \/ StartsWith(s, <<"h","t","t","p",":","/","/">>)
    \/ StartsWith(s, <<"h","t","t","p","s",":","/","/">>)

-----------------------------------------------------------------------------
(* JavaScript values *)

JNull == [t |-> "null", v |-> <<>>]
JStr(s) == [t |-> "str", v |-> s]
JNum(n) == [t |-> "num", v |-> <<n>>]
JArr(items) == [t |-> "arr", v |-> items]
\* an object: its own enumerable entries in insertion order
JObj(kv) == [t |-> "obj", v |-> kv]
KV(key, val) == [k |-> key, val |-> val]

\* ToBoolean
Truthy(j) ==
    CASE j.t = "null" -> FALSE
      [] j.t = "str" -> j.v # <<>>
      [] j.t = "num" -> j.v # <<0>>
      [] OTHER -> TRUE

\* typeof x === 'object' && x (arrays included)
IsObject(j) == j.t \in {"obj", "arr"}

-----------------------------------------------------------------------------
(* The Value Index: a JavaScript Map, as its entries in insertion order *)

\* new Map()
NewMap == <<>>

MapHas(map, key) == \E k \in 1..Len(map) : map[k].key = key

\* Map.prototype.get (callers test MapHas first: get returns undefined)
MapGet(map, key) == map[CHOOSE k \in 1..Len(map) : map[k].key = key]

\* a Map.prototype.set that would keep the first producer of a value
MapSetKeepFirst(map, key, source) ==
    IF MapHas(map, key) THEN map
    ELSE Append(map, [key |-> key, reqIndex |-> source.reqIndex, path |-> source.path])

\* Map.prototype.set: a present key keeps its place and takes the new value
MapSet(map, key, source) ==
    IF MapHas(map, key)
    THEN [k \in 1..Len(map) |->
            IF map[k].key = key
            THEN [key |-> key, reqIndex |-> source.reqIndex, path |-> source.path]
            ELSE map[k]]
    ELSE Append(map, [key |-> key, reqIndex |-> source.reqIndex, path |-> source.path])

\* shortest string that is not indexed / not a candidate: length > 8 is asked
MinValueLen == 8
\* indexed strings are shorter than this
MaxValueLen == 1000

\* the leaf test of indexValues with the length test off by one
LeafIndexableFrom8(obj) ==
    /\ obj.t = "str"
    /\ Len(obj.v) >= MinValueLen
    /\ Len(obj.v) < MaxValueLen
    /\ ~IsDatePrefixed(obj.v)
    /\ ~IsUrlPrefixed(obj.v)

\* the leaf test of indexValues without its two exclusions
LeafIndexableNoSkip(obj) ==
    /\ obj.t = "str"
    /\ Len(obj.v) > MinValueLen
    /\ Len(obj.v) < MaxValueLen

\* indexValues, the leaf case: which leaves are put in the map
LeafIndexable(obj) ==
    /\ obj.t = "str"
    /\ Len(obj.v) > MinValueLen
    /\ Len(obj.v) < MaxValueLen
    /\ ~IsDatePrefixed(obj.v)
    /\ ~IsUrlPrefixed(obj.v)

\* prefix ? `${prefix}.${key}` : key
KeyPath(prefix, key) == IF prefix # <<>> THEN prefix \o <<".">> \o key ELSE key

\* `${prefix}[${i}]`
ItemPath(prefix, n) == prefix \o <<"[">> \o Digits(n) \o <<"]">>

\* a map.set that keeps the former producer of a value and takes the new path
IndexLeafKeepsSource(map, obj, reqIndex, prefix) ==
    IF MapHas(map, obj.v)
    THEN MapSet(map, obj.v, [reqIndex |-> MapGet(map, obj.v).reqIndex, path |-> prefix])
    ELSE MapSet(map, obj.v, [reqIndex |-> reqIndex, path |-> prefix])

\* the map.set call of indexValues
IndexLeaf(map, obj, reqIndex, prefix) ==
    MapSet(map, obj.v, [reqIndex |-> reqIndex, path |-> prefix])

RECURSIVE IndexValues(_, _, _, _)
RECURSIVE IndexItems(_, _, _, _, _)
RECURSIVE IndexEntries(_, _, _, _, _)

\* obj.forEach((item, i) => indexValues(item, reqIndex, `${prefix}[${i}]`, map))
IndexItems(items, n, reqIndex, prefix, map) ==
    IF n > Len(items) THEN map
    ELSE IndexItems(items, n + 1, reqIndex, prefix,
            IndexValues(items[n], reqIndex, ItemPath(prefix, n - 1), map))

\* for (const [key, val] of Object.entries(obj)) indexValues(val, ...)
IndexEntries(kv, n, reqIndex, prefix, map) ==
    IF n > Len(kv) THEN map
    ELSE IndexEntries(kv, n + 1, reqIndex, prefix,
            IndexValues(kv[n].val, reqIndex, KeyPath(prefix, kv[n].k), map))

\* indexValues(obj, reqIndex, prefix, map): the map after the call
IndexValues(obj, reqIndex, prefix, map) ==
    CASE obj.t = "arr" -> IndexItems(obj.v, 1, reqIndex, prefix, map)
      [] obj.t = "obj" -> IndexEntries(obj.v, 1, reqIndex, prefix, map)
      [] OTHER -> IF LeafIndexable(obj)
                  THEN IndexLeaf(map, obj, reqIndex, prefix)
                  ELSE map

-----------------------------------------------------------------------------
(* findDepsInRequest *)

\* the strings walkValues(obj, fn) hands to fn, in call order
RECURSIVE WalkValues(_)
RECURSIVE WalkSeq(_, _)
WalkSeq(vals, n) ==
    IF n > Len(vals) THEN <<>> ELSE WalkValues(vals[n]) \o WalkSeq(vals, n + 1)
WalkValues(obj) ==
    CASE obj.t = "arr" -> WalkSeq(obj.v, 1)
      [] obj.t = "obj" -> WalkSeq([k \in 1..Len(obj.v) |-> obj.v[k].val], 1)
      [] obj.t = "str" -> <<obj>>
      [] OTHER -> <<>>

\* the substring loop without the test of the seen set
RECURSIVE SubstringScanNoSeen(_, _, _, _)
SubstringScanNoSeen(val, vmap, n, st) ==
    IF n > Len(vmap) THEN st
    ELSE LET source == vmap[n]
         IN  SubstringScanNoSeen(val, vmap, n + 1,
                IF Includes(val, source.key)
                THEN [seen  |-> st.seen \cup {source.reqIndex},
                      found |-> Append(st.found,
                                   [sourceIndex |-> source.reqIndex,
                                    path |-> source.path,
                                    matchedValue |-> source.key])]
                ELSE st)

\* the substring loop with a break after its first hit
RECURSIVE SubstringScanFirstHit(_, _, _, _)
SubstringScanFirstHit(val, vmap, n, st) ==
    IF n > Len(vmap) THEN st
    ELSE LET source == vmap[n]
         IN  IF Includes(val, source.key) /\ source.reqIndex \notin st.seen
             THEN [seen  |-> st.seen \cup {source.reqIndex},
                   found |-> Append(st.found,
                                [sourceIndex |-> source.reqIndex,
                                 path |-> source.path,
                                 matchedValue |-> source.key])]
             ELSE SubstringScanFirstHit(val, vmap, n + 1, st)

\* the substring loop of checkValue: for (const [mapVal, source] of valueMap)
RECURSIVE SubstringScan(_, _, _, _)
SubstringScan(val, vmap, n, st) ==
    IF n > Len(vmap) THEN st
    ELSE LET source == vmap[n]
         IN  SubstringScan(val, vmap, n + 1,
                IF Includes(val, source.key) /\ source.reqIndex \notin st.seen
                THEN [seen  |-> st.seen \cup {source.reqIndex},
                      found |-> Append(st.found,
                                   [sourceIndex |-> source.reqIndex,
                                    path |-> source.path,
                                    matchedValue |-> source.key])]
                ELSE st)

\* checkValue without the substring fallback
CheckValueExactOnly(val, vmap, st) ==
    IF val.t # "str" \/ Len(val.v) <= MinValueLen THEN st
    ELSE IF MapHas(vmap, val.v) /\ MapGet(vmap, val.v).reqIndex \notin st.seen
         THEN LET match == MapGet(vmap, val.v)
              IN  [seen  |-> st.seen \cup {match.reqIndex},
                   found |-> Append(st.found,
                                [sourceIndex |-> match.reqIndex,
                                 path |-> match.path,
                                 matchedValue |-> val.v])]
         ELSE st

\* checkValue whose exact match does not ask the seen set
CheckValueNoSeen(val, vmap, st) ==
    IF val.t # "str" \/ Len(val.v) <= MinValueLen THEN st
    ELSE IF MapHas(vmap, val.v)
         THEN LET match == MapGet(vmap, val.v)
              IN  [seen  |-> st.seen \cup {match.reqIndex},
                   found |-> Append(st.found,
                                [sourceIndex |-> match.reqIndex,
                                 path |-> match.path,
                                 matchedValue |-> val.v])]
         ELSE SubstringScan(val.v, vmap, 1, st)

\* checkValue(val): st is the closure's (found, seen) before, the result after
CheckValue(val, vmap, st) ==
    IF val.t # "str" \/ Len(val.v) <= MinValueLen THEN st
    ELSE IF MapHas(vmap, val.v) /\ MapGet(vmap, val.v).reqIndex \notin st.seen
         THEN LET match == MapGet(vmap, val.v)
              IN  [seen  |-> st.seen \cup {match.reqIndex},
                   found |-> Append(st.found,
                                [sourceIndex |-> match.reqIndex,
                                 path |-> match.path,
                                 matchedValue |-> val.v])]
         ELSE SubstringScan(val.v, vmap, 1, st)

\* Object.values(obj) of a header object kept as its (name, value) entries
HeaderValues(headers) == [k \in 1..Len(headers) |-> JStr(headers[k].value)]

\* a findDepsInRequest that never hands the header values to checkValue
CandidatesNoHeaders(req) ==
    <<JStr(req.url)>>
    \o (IF Truthy(req.body)
        THEN IF req.body.t = "str" THEN <<req.body>> ELSE WalkValues(req.body)
        ELSE <<>>)

\* the values findDepsInRequest hands to checkValue, in call order
Candidates(req) ==
    HeaderValues(req.headers)
    \o <<JStr(req.url)>>
    \o (IF Truthy(req.body)
        THEN IF req.body.t = "str" THEN <<req.body>> ELSE WalkValues(req.body)
        ELSE <<>>)

\* a findDepsInRequest that stops at the first candidate that found a source
RECURSIVE CheckAllFirstHit(_, _, _, _)
CheckAllFirstHit(cands, n, vmap, st) ==
    IF n > Len(cands) \/ st.found # <<>> THEN st
    ELSE CheckAllFirstHit(cands, n + 1, vmap, CheckValue(cands[n], vmap, st))

RECURSIVE CheckAll(_, _, _, _)
CheckAll(cands, n, vmap, st) ==
    IF n > Len(cands) THEN st
    ELSE CheckAll(cands, n + 1, vmap, CheckValue(cands[n], vmap, st))

\* findDepsInRequest(req, valueMap): the list `found`
FindDepsInRequest(req, vmap) ==
    CheckAll(Candidates(req), 1, vmap, [seen |-> {}, found |-> <<>>]).found

-----------------------------------------------------------------------------
(* HAR entries and parseEntry *)

\* the text of a body: its characters, and what JSON.parse makes of them
\* (parsed = FALSE: JSON.parse throws)
RECURSIVE Stringify(_)
RECURSIVE StringifyItems(_, _)
RECURSIVE StringifyEntries(_, _)
StringifyItems(items, n) ==
    IF n > Len(items) THEN <<>>
    ELSE (IF n > 1 THEN <<",">> ELSE <<>>) \o Stringify(items[n])
         \o StringifyItems(items, n + 1)
StringifyEntries(kv, n) ==
    IF n > Len(kv) THEN <<>>
    ELSE (IF n > 1 THEN <<",">> ELSE <<>>)
         \o <<"\"">> \o kv[n].k \o <<"\"", ":">> \o Stringify(kv[n].val)
         \o StringifyEntries(kv, n + 1)
\* the JSON text of a value (no character of the model needs escaping)
Stringify(j) ==
    CASE j.t = "null" -> <<"n","u","l","l">>
      [] j.t = "num" -> Digits(j.v[1])
      [] j.t = "str" -> <<"\"">> \o j.v \o <<"\"">>
      [] j.t = "arr" -> <<"[">> \o StringifyItems(j.v, 1) \o <<"]">>
      [] j.t = "obj" -> <<"{">> \o StringifyEntries(j.v, 1) \o <<"}">>

JsonText(j) == [chars |-> Stringify(j), parsed |-> TRUE, json |-> j]
RawText(s) == [chars |-> s, parsed |-> FALSE, json |-> JNull]
\* no postData / no content.text (an empty text is falsy as well)
NoText == RawText(<<>>)

\* tryParseJson(str): JSON.parse(str), null when it throws
TryParseJson(text) == IF text.parsed THEN text.json ELSE JNull

\* new Date(startedDateTime) as a number: startedDateTime is the ISO text of
\* instant ms written with UTC offset tz
DateValue(startedDateTime) == startedDateTime.ms

NOISE_HEADERS ==
    {<<"s","e","c","-","c","h","-","u","a">>, <<"s","e","c","-","c","h","-","u","a","-","m","o","b","i","l","e">>, <<"s","e","c","-","c","h","-","u","a","-","p","l","a","t","f","o","r","m">>,
     <<"s","e","c","-","c","h","-","u","a","-","f","u","l","l","-","v","e","r","s","i","o","n","-","l","i","s","t">>, <<"s","e","c","-","c","h","-","u","a","-","a","r","c","h">>, <<"s","e","c","-","c","h","-","u","a","-","b","i","t","n","e","s","s">>,
     <<"s","e","c","-","c","h","-","u","a","-","m","o","d","e","l">>, <<"s","e","c","-","c","h","-","u","a","-","w","o","w","6","4">>, <<"s","e","c","-","f","e","t","c","h","-","d","e","s","t">>,
     <<"s","e","c","-","f","e","t","c","h","-","m","o","d","e">>, <<"s","e","c","-","f","e","t","c","h","-","s","i","t","e">>, <<"s","e","c","-","f","e","t","c","h","-","u","s","e","r">>,
     <<"u","p","g","r","a","d","e","-","i","n","s","e","c","u","r","e","-","r","e","q","u","e","s","t","s">>, <<"d","n","t">>, <<"c","o","n","n","e","c","t","i","o","n">>, <<"h","o","s","t">>,
     <<"a","c","c","e","p","t","-","e","n","c","o","d","i","n","g">>, <<"a","c","c","e","p","t","-","l","a","n","g","u","a","g","e">>}

\* RESOURCE_TYPES: the checkbox values and their default state, in order
RESOURCE_TYPES ==
    <<[type |-> <<"f","e","t","c","h">>, checked |-> TRUE],
      [type |-> <<"x","h","r">>, checked |-> TRUE],
      [type |-> <<"x","m","l","h","t","t","p","r","e","q","u","e","s","t">>, checked |-> TRUE],
      [type |-> <<"d","o","c","u","m","e","n","t">>, checked |-> TRUE],
      [type |-> <<"s","c","r","i","p","t">>, checked |-> FALSE],
      [type |-> <<"s","t","y","l","e","s","h","e","e","t">>, checked |-> FALSE],
      [type |-> <<"i","m","a","g","e">>, checked |-> FALSE],
      [type |-> <<"f","o","n","t">>, checked |-> FALSE],
      [type |-> <<"m","e","d","i","a">>, checked |-> FALSE],
      [type |-> <<"w","e","b","s","o","c","k","e","t">>, checked |-> FALSE],
      [type |-> <<"m","a","n","i","f","e","s","t">>, checked |-> FALSE],
      [type |-> <<"o","t","h","e","r">>, checked |-> FALSE]>>

\* the value attributes of the checkboxes buildResourceTypeCheckboxes makes
CheckboxValues == {RESOURCE_TYPES[k].type : k \in 1..Len(RESOURCE_TYPES)}
\* the boxes checked when the page is built
DefaultEnabledTypes ==
    {RESOURCE_TYPES[k].type : k \in {n \in 1..Len(RESOURCE_TYPES) : RESOURCE_TYPES[n].checked}}

\* url.match(/\.(e1|e2|...)(\?|$)/) for the extensions exts
MatchesExt(url, exts) ==
    \E e \in exts :
        LET pat == <<".">> \o e
        IN  \E p \in 1..(Len(url) - Len(pat) + 1) :
                /\ SubSeq(url, p, p + Len(pat) - 1) = pat
                /\ \/ p + Len(pat) - 1 = Len(url)
                   \/ url[p + Len(pat)] = "?"

\* guessResourceType(entry)
GuessResourceType(entry) ==
    LET url == ToLowerCase(entry.request.url)
        mime == entry.response.content.mimeType
    IN  CASE Includes(mime, <<"h","t","m","l">>) -> <<"d","o","c","u","m","e","n","t">>
          [] Includes(mime, <<"j","a","v","a","s","c","r","i","p","t">>) -> <<"s","c","r","i","p","t">>
          [] Includes(mime, <<"c","s","s">>) -> <<"s","t","y","l","e","s","h","e","e","t">>
          [] Includes(mime, <<"i","m","a","g","e">>) -> <<"i","m","a","g","e">>
          [] Includes(mime, <<"f","o","n","t">>) -> <<"f","o","n","t">>
          [] Includes(mime, <<"j","s","o","n">>) \/ Includes(mime, <<"x","m","l">>) -> <<"f","e","t","c","h">>
          [] MatchesExt(url, {<<"j","s">>, <<"m","j","s">>}) -> <<"s","c","r","i","p","t">>
          [] MatchesExt(url, {<<"c","s","s">>}) -> <<"s","t","y","l","e","s","h","e","e","t">>
          [] MatchesExt(url, {<<"p","n","g">>, <<"j","p","g">>, <<"j","p","e","g">>, <<"g","i","f">>, <<"s","v","g">>, <<"w","e","b","p">>, <<"i","c","o">>}) -> <<"i","m","a","g","e">>
          [] MatchesExt(url, {<<"w","o","f","f">>, <<"w","o","f","f","2">>, <<"t","t","f">>, <<"o","t","f">>, <<"e","o","t">>}) -> <<"f","o","n","t">>
          [] OTHER -> <<"o","t","h","e","r">>

\* entry._resourceType || guessResourceType(entry)
ResourceTypeOf(entry) ==
    IF entry._resourceType # <<>> THEN entry._resourceType
    ELSE GuessResourceType(entry)

\* new URL(url) for an absolute http(s) URL without fragment: host, pathname
\* and search
ParseURL(url) ==
    LET start == IndexOfFrom(url, <<":","/","/">>, 1) + 3
        slash == IndexOfFrom(url, <<"/">>, start)
        query == IndexOfFrom(url, <<"?">>, start)
        hasPath == slash # 0 /\ (query = 0 \/ slash < query)
        hostEnd == IF hasPath THEN slash
                   ELSE IF query # 0 THEN query ELSE Len(url) + 1
    IN  [host |-> SubSeq(url, start, hostEnd - 1),
         pathname |-> IF hasPath
                      THEN SubSeq(url, slash, IF query = 0 THEN Len(url) ELSE query - 1)
                      ELSE <<"/">>,
         search |-> IF query = 0 \/ query = Len(url) THEN <<>>
                    ELSE SubSeq(url, query, Len(url))]

\* headers[h.name] = h.value on an object kept as its entries
ObjSet(obj, name, value) ==
    IF \E k \in 1..Len(obj) : obj[k].name = name
    THEN [k \in 1..Len(obj) |->
            IF obj[k].name = name THEN [name |-> name, value |-> value] ELSE obj[k]]
    ELSE Append(obj, [name |-> name, value |-> value])

\* the two header loops of parseEntry
RECURSIVE FilterHeaders(_, _, _, _)
FilterHeaders(hs, n, allHeaders, acc) ==
    IF n > Len(hs) THEN acc
    ELSE FilterHeaders(hs, n + 1, allHeaders,
            IF ~allHeaders /\ ToLowerCase(hs[n].name) \in NOISE_HEADERS
            THEN acc
            ELSE ObjSet(acc, hs[n].name, hs[n].value))

\* unparsed response text is kept when shorter than this
MaxRawBody == 5000

\* lines 640-643: the body of the record, from req.postData.text
ParseBody(req) ==
    IF req.postData.chars # <<>>
    THEN IF Truthy(TryParseJson(req.postData))
         THEN TryParseJson(req.postData)
         ELSE JStr(req.postData.chars)
    ELSE JNull

ParseResponseBodyUpToCeiling(res) ==
    IF res.content.text.chars # <<>>
    THEN IF ~Truthy(TryParseJson(res.content.text))
            /\ Len(res.content.text.chars) <= MaxRawBody
         THEN JStr(res.content.text.chars)
         ELSE TryParseJson(res.content.text)
    ELSE JNull

\* lines 646-653: the response body of the record, from res.content.text
ParseResponseBody(res) ==
    IF res.content.text.chars # <<>>
    THEN IF ~Truthy(TryParseJson(res.content.text))
            /\ Len(res.content.text.chars) < MaxRawBody
         THEN JStr(res.content.text.chars)
         ELSE TryParseJson(res.content.text)
    ELSE JNull

\* parseEntry(entry, index, allHeaders)
ParseEntry(entry, index, allHeaders) ==
    LET req == entry.request
        res == entry.response
        urlObj == ParseURL(req.url)
        body == ParseBody(req)
        responseBody == ParseResponseBody(res)
    IN  [index |-> index,
         name |-> req.method \o <<" ">> \o urlObj.pathname,
         method |-> req.method,
         url |-> req.url,
         host |-> urlObj.host,
         path |-> urlObj.pathname \o urlObj.search,
         headers |-> FilterHeaders(req.headers, 1, allHeaders, <<>>),
         body |-> body,
         response |-> [status |-> res.status,
                       statusText |-> res.statusText,
                       contentType |-> res.content.mimeType,
                       headers |-> FilterHeaders(res.headers, 1, allHeaders, <<>>),
                       body |-> responseBody],
         time |-> entry.startedDateTime,
         resourceType |-> ResourceTypeOf(entry)]

-----------------------------------------------------------------------------
(* detectDependencies *)

\* the check of record n (0-based) against the index, lines 706-711:
\* the edges pushed to deps
ScanDepsFound(reqs, n, vmap) ==
    IF n > 0
    THEN LET found == FindDepsInRequest(reqs[n + 1], vmap)
         IN  [k \in 1..Len(found) |->
                [from |-> found[k].sourceIndex, to |-> n,
                 via |-> found[k].path, value |-> found[k].matchedValue]]
    ELSE <<>>

\* the indexing of record n's response, lines 713-716: the map afterwards
IndexResponse(reqs, n, vmap) ==
    LET resBody == reqs[n + 1].response.body
    IN  IF IsObject(resBody) THEN IndexValues(resBody, n, <<>>, vmap) ELSE vmap

\* a loop body that indexes record n's response before checking record n
ScanDepsAfterIndex(reqs, n, vmap) ==
    ScanDepsFound(reqs, n, IndexResponse(reqs, n, vmap))

\* one check of the loop of detectDependencies, on the index as it stands
ScanDeps(reqs, n, vmap) == ScanDepsFound(reqs, n, vmap)

\* an index filled from every response before the loop starts (two passes)
RECURSIVE IndexAll(_, _, _)
IndexAll(reqs, n, vmap) ==
    IF n >= Len(reqs) THEN vmap
    ELSE IndexAll(reqs, n + 1, IndexResponse(reqs, n, vmap))

\* an index kept from one call to the next
StartMapStale(reqs) == valueMap

StartMapAllIndexed(reqs) == IndexAll(reqs, 0, NewMap)

\* const valueMap = new Map() at the start of detectDependencies
StartMap(reqs) == NewMap

\* the loop from record n on: the final deps and valueMap
RECURSIVE DetectLoop(_, _, _, _)
DetectLoop(reqs, n, vmap, ds) ==
    IF n >= Len(reqs) THEN [deps |-> ds, valueMap |-> vmap]
    ELSE DetectLoop(reqs, n + 1, IndexResponse(reqs, n, vmap),
                    ds \o ScanDeps(reqs, n, vmap))

\* detectDependencies(requests)
DetectDependencies(reqs) == DetectLoop(reqs, 0, StartMap(reqs), <<>>).deps

-----------------------------------------------------------------------------
(* The transactions the specifications draw their traces from *)

TokenV == <<"a","b","c","d","e","f","1","2","3","4","5","6","7","8","9","0">>
TokenW == <<"z","y","x","w","v","u","9","8","7","6">>
\* nine characters, a substring of TokenV
Nine == <<"a","b","c","d","e","f","1","2","3">>
\* eight characters: the longest string that is never a value
Eight == <<"a","b","c","d","e","f","1","2">>
IsoDate == <<"2","0","2","4","-","0","1","-","0","1","T","1","0",":","0","0",":","0","0","Z">>
Link == <<"h","t","t","p","s",":","/","/","x",".","i","o","/","n","e","x","t">>
BearerV == <<"B","e","a","r","e","r"," ">> \o TokenV

H(name, value) == [name |-> name, value |-> value]

Entry(rt, ms, tz, method, url, headers, postData, status, mime, text) ==
    [_resourceType |-> rt,
     startedDateTime |-> [ms |-> ms, tz |-> tz],
     request |-> [method |-> method, url |-> url, headers |-> headers,
                  postData |-> postData],
     response |-> [status |-> status, statusText |-> <<>>,
                   headers |-> <<H(<<"C","o","n","t","e","n","t","-","T","y","p","e">>, mime)>>,
                   content |-> [mimeType |-> mime, text |-> text]]]

\* a login: its response issues TokenV under the key token
ELogin ==
    Entry(<<"f","e","t","c","h">>, 1, 0, <<"P","O","S","T">>, <<"h","t","t","p","s",":","/","/","x",".","i","o","/","l","o","g","i","n">>,
          <<H(<<"H","o","s","t">>, <<"x",".","i","o">>), H(<<"A","c","c","e","p","t">>, <<"*","/","*">>)>>,
          JsonText(JObj(<<KV(<<"u","s","e","r">>, JStr(<<"b","o","b">>))>>)),
          200, <<"a","p","p","l","i","c","a","t","i","o","n","/","j","s","o","n">>,
          JsonText(JObj(<<KV(<<"t","o","k","e","n">>, JStr(TokenV))>>)))

\* a call that sends the token as a bearer header; its response issues TokenV
\* again, deeper, and TokenW in an array
EApi ==
    Entry(<<"X","H","R">>, 2, 0, <<"G","E","T">>, <<"h","t","t","p","s",":","/","/","x",".","i","o","/","a","p","i">>,
          <<H(<<"A","u","t","h","o","r","i","z","a","t","i","o","n">>, BearerV)>>,
          NoText,
          200, <<"a","p","p","l","i","c","a","t","i","o","n","/","j","s","o","n">>,
          JsonText(JObj(<<KV(<<"d","a","t","a">>, JObj(<<KV(<<"t","o","k","e","n">>, JStr(TokenV))>>)),
                          KV(<<"i","t","e","m","s">>, JArr(<<JStr(TokenW)>>))>>)))

\* a call that reuses both tokens in several fields; its response holds a
\* date, a URL, an eight-character string and Nine
EMulti ==
    Entry(<<>>, 2, 1, <<"G","E","T">>, <<"h","t","t","p","s",":","/","/","x",".","i","o","/","u","/","a","b","c","d","e","f","1","2","3","4","5","6","7","8","9","0","?","w","=","z","y","x","w","v","u","9","8","7","6">>,
          <<H(<<"A","u","t","h","o","r","i","z","a","t","i","o","n">>, BearerV), H(<<"X","-","T","o","k">>, TokenV)>>,
          JsonText(JObj(<<KV(<<"t","o","k">>, JStr(TokenV)),
                          KV(<<"l","i","s","t">>, JArr(<<JStr(TokenW), JStr(Eight)>>))>>)),
          200, <<"a","p","p","l","i","c","a","t","i","o","n","/","j","s","o","n">>,
          JsonText(JObj(<<KV(<<"c","r","e","a","t","e","d">>, JStr(IsoDate)),
                          KV(<<"l","i","n","k">>, JStr(Link)),
                          KV(<<"s","h","o","r","t">>, JStr(Eight)),
                          KV(<<"i","d">>, JStr(Nine))>>)))

\* a preflight that reuses the date, the URL, the short string and Nine
\* verbatim; its response is unstructured text holding TokenV
EReuse ==
    Entry(<<"p","r","e","f","l","i","g","h","t">>, 3, 0, <<"O","P","T","I","O","N","S">>, <<"h","t","t","p","s",":","/","/","x",".","i","o","/","r","e","u","s","e">>,
          <<H(<<"I","f","-","S","i","n","c","e">>, IsoDate), H(<<"R","e","f","e","r","e","r">>, Link), H(<<"X","-","S">>, Eight),
            H(<<"X","-","I","d">>, Nine), H(<<"D","N","T">>, <<"1">>)>>,
          RawText(IsoDate),
          404, <<"t","e","x","t","/","p","l","a","i","n">>,
          RawText(<<"t","o","k","e","n"," ">> \o TokenV))

\* a script whose request already holds the token its response issues
EEcho ==
    Entry(<<"s","c","r","i","p","t">>, 1, 0, <<"G","E","T">>, <<"h","t","t","p","s",":","/","/","x",".","i","o","/","a","p","p",".","j","s">>,
          <<H(<<"X","-","E","c","h","o">>, TokenW)>>,
          JsonText(JObj(<<KV(<<"t","o","k">>, JStr(TokenW))>>)),
          200, <<"a","p","p","l","i","c","a","t","i","o","n","/","j","s","o","n">>,
          JsonText(JObj(<<KV(<<"t","o","k","e","n">>, JStr(TokenW))>>)))

\* a page load without _resourceType, earlier than all others in another zone
EPage ==
    Entry(<<>>, 0, 1, <<"G","E","T">>, <<"h","t","t","p","s",":","/","/","x",".","i","o","/">>,
          <<>>,
          NoText,
          302, <<"t","e","x","t","/","h","t","m","l">>,
          RawText(<<"<","h","t","m","l",">">>))

\* a call that sends TokenV verbatim in two headers
ETwice ==
    Entry(<<"f","e","t","c","h">>, 3, 0, <<"G","E","T">>, <<"h","t","t","p","s",":","/","/","x",".","i","o","/","t","w","i","c","e">>,
          <<H(<<"X","-","A">>, TokenV), H(<<"X","-","B">>, TokenV)>>,
          NoText,
          200, <<"t","e","x","t","/","p","l","a","i","n">>,
          RawText(<<"d","o","n","e">>))

\* a call that sends TokenV verbatim in one header and nowhere else
EOnce ==
    Entry(<<"f","e","t","c","h">>, 3, 0, <<"G","E","T">>, <<"h","t","t","p","s",":","/","/","x",".","i","o","/","o","n","c","e">>,
          <<H(<<"X","-","A">>, TokenV)>>,
          NoText,
          200, <<"t","e","x","t","/","p","l","a","i","n">>,
          RawText(<<"d","o","n","e">>))

Transactions == {ELogin, EApi, EMulti, EReuse, EEcho, EPage, ETwice, EOnce}

\* the traces of at most n transactions
TracesUpTo(n) == UNION {[1..k -> Transactions] : k \in 0..n}

\* filtered.map((entry, i) => parseEntry(entry, i, allHeaders))
ParseEntries(entries, allHeaders) ==
    [k \in 1..Len(entries) |-> ParseEntry(entries[k], k - 1, allHeaders)]

-----------------------------------------------------------------------------
(* SpecDeps: detectDependencies step by step over any list of Request      *)
(* Records made by parseEntry from at most MaxRecords transactions         *)

NoRun == [ran |-> FALSE]
NoRerun == [repeat |-> FALSE, same |-> TRUE]
NoDiagram == [kind |-> "none", graph |-> <<>>]

\* the page as loaded, before any file is chosen (the state resetUI restores,
\* with the default checkboxes of buildResourceTypeCheckboxes)
\* no input event of #excludePatterns yet
NoBurst == [events |-> 0, elapsed |-> 0, runs |-> 0]

\* jiradown/script.js:314-321: both panes empty, no conversion running, no
\* pane active
ConverterIdle ==
    /\ jiraInput = <<>>
    /\ mdInput = <<>>
    /\ isConverting = FALSE
    /\ activePane = "none"
    /\ lastEdited = "none"

PageIdle ==
    /\ rawHar = JNull
    /\ fileName = <<>>
    /\ enabledTypes = DefaultEnabledTypes
    /\ excludePatterns = <<>>
    /\ showAllHeaders = FALSE
    /\ uploadHidden = FALSE
    /\ resultsHidden = TRUE
    /\ errorVisible = FALSE
    /\ errorText = ""
    /\ statsEl = <<>>
    /\ yamlOutput = <<>>
    /\ mermaidOutput = NoDiagram
    /\ requestsList = <<>>
    /\ reads = {}
    /\ renders = {}
    /\ timer = FALSE
    /\ timerLeft = 0
    /\ burst = NoBurst
    /\ graph = <<>>
    /\ lastRun = NoRun
    /\ rerun = NoRerun
    /\ ConverterIdle

InitDeps ==
    /\ PageIdle
    /\ \E entries \in TracesUpTo(MaxRecords), allHeaders \in BOOLEAN :
          /\ requests = ParseEntries(entries, allHeaders)
          /\ valueMap = StartMap(ParseEntries(entries, allHeaders))
          /\ filtered = entries
    /\ deps = <<>>
    /\ i = 0
    /\ pc = "scan"

\* lines 705-711: check record i against the values indexed so far
ScanRecord ==
    /\ pc = "scan"
    /\ i < Len(requests)
    /\ deps' = deps \o ScanDeps(requests, i, valueMap)
    /\ pc' = "index"
    /\ UNCHANGED <<filtered, requests, valueMap, i>>
    /\ UNCHANGED pageVars

\* lines 713-716: index record i's response, then i++
IndexRecord ==
    /\ pc = "index"
    /\ valueMap' = IndexResponse(requests, i, valueMap)
    /\ i' = i + 1
    /\ pc' = "scan"
    /\ UNCHANGED <<filtered, requests, deps>>
    /\ UNCHANGED pageVars

\* line 719: return deps
ReturnDeps ==
    /\ pc = "scan"
    /\ i = Len(requests)
    /\ pc' = "returned"
    /\ UNCHANGED <<filtered, requests, deps, valueMap, i>>
    /\ UNCHANGED pageVars

NextDeps == ScanRecord \/ IndexRecord \/ ReturnDeps

SpecDeps == InitDeps /\ [][NextDeps]_vars

-----------------------------------------------------------------------------
(* Properties of detectDependencies (checked under SpecDeps) *)

Range(seq) == {seq[k] : k \in 1..Len(seq)}

\* the leaf strings of record n's structured response body (n is 0-based)
ResponseLeaves(n) ==
    LET resBody == requests[n + 1].response.body
    IN  IF IsObject(resBody) THEN {leaf.v : leaf \in Range(WalkValues(resBody))} ELSE {}

\* the strings of record n's request that are checked against the index
CandidateStrings(n) == {c.v : c \in Range(Candidates(requests[n + 1]))}

\* what record n's response alone puts in an empty index
ProducedBy(n) == IndexResponse(requests, n, NewMap)

Positions == 0..(Len(requests) - 1)

\* C1: no edge returned by detectDependencies has its source index (from)
\* equal to its destination index (to).
C1_Irreflexive == \A e \in Range(deps) : e.from # e.to

\* C1 witness: the list is scanned to its end, edges were found, and some
\* record's own request holds a value its own response produces.
C1_Witness ==
    /\ pc = "returned"
    /\ deps # <<>>
    /\ \E n \in Positions :
          /\ n > 0
          /\ FindDepsInRequest(requests[n + 1], ProducedBy(n)) # <<>>

\* C2: whenever a record is scanned, and at every other point of the loop,
\* the Value Index holds only values indexed from records before the loop
\* counter i, and every edge produced goes from a lower to a higher index.
C2_OnlyEarlierIndexed ==
    /\ \A source \in Range(valueMap) : source.reqIndex < i
    /\ \A e \in Range(deps) : e.from < e.to

\* C2 witness: record i has just been scanned against a non-empty index while
\* the next record's response produces a value that record i's request holds.
C2_Witness ==
    /\ pc = "index"
    /\ valueMap # <<>>
    /\ i + 1 \in Positions
    /\ i > 0
    /\ FindDepsInRequest(requests[i + 1], ProducedBy(i + 1)) # <<>>

\* C3: a string of length 8 or less is never in the Value Index, every edge's
\* matched value is longer than 8, and every edge rests on a candidate string
\* of its destination record that is longer than 8.
C3_ShortNeverMatches ==
    /\ \A source \in Range(valueMap) : Len(source.key) > 8
    /\ \A e \in Range(deps) :
          /\ Len(e.value) > 8
          /\ \E c \in CandidateStrings(e.to) : Len(c) > 8 /\ Includes(c, e.value)

\* C3 witness: a response leaf of exactly 8 characters was passed over by the
\* indexing and a later record, already scanned, holds that string verbatim.
C3_Witness ==
    /\ pc = "returned"
    /\ \E j \in Positions, n \in Positions :
          /\ j < n
          /\ \E s \in ResponseLeaves(j) : Len(s) = 8 /\ s \in CandidateStrings(n)

\* C4: for two records, the first answering {"token": TokenV} and the second
\* sending the header value 'Bearer ' + TokenV, detectDependencies returns
\* exactly one edge: from 0 to 1, matched value TokenV.
C4_BearerExample ==
    ( /\ pc = "returned"
      /\ Len(requests) = 2
      /\ requests[1].response.body = JObj(<<KV(<<"t","o","k","e","n">>, JStr(TokenV))>>)
      /\ \E h \in Range(requests[2].headers) : h.value = <<"B","e","a","r","e","r"," ">> \o TokenV )
    => /\ Len(deps) = 1
       /\ deps[1].from = 0
       /\ deps[1].to = 1
       /\ deps[1].value = TokenV

\* C4 witness: the two-record case, in which three more fields of record 1
\* hold TokenV as well.
C4_Witness ==
    /\ pc = "returned"
    /\ Len(requests) = 2
    /\ requests[1].response.body = JObj(<<KV(<<"t","o","k","e","n">>, JStr(TokenV))>>)
    /\ \E h \in Range(requests[2].headers) : h.value = <<"B","e","a","r","e","r"," ">> \o TokenV
    /\ Cardinality({c \in CandidateStrings(1) : Includes(c, TokenV)}) >= 3
    /\ Len(deps) = 1

\* C5: no key of the Value Index and no edge's matched value begins with an
\* ISO date or with http:// or https://.
C5_NoDateNoUrl ==
    /\ \A source \in Range(valueMap) :
          ~IsDatePrefixed(source.key) /\ ~IsUrlPrefixed(source.key)
    /\ \A e \in Range(deps) :
          ~IsDatePrefixed(e.value) /\ ~IsUrlPrefixed(e.value)

\* C5 witness: a response held a date-prefixed string and a URL, and a later
\* record, already scanned, reuses both verbatim.
C5_Witness ==
    /\ pc = "returned"
    /\ \E j \in Positions, n \in Positions :
          /\ j < n
          /\ \E s \in ResponseLeaves(j) : IsDatePrefixed(s) /\ s \in CandidateStrings(n)
          /\ \E s \in ResponseLeaves(j) : IsUrlPrefixed(s) /\ s \in CandidateStrings(n)

\* C10: an edge's source is the most recent producer of its matched value:
\* no record between source and destination indexes that value, and the
\* edge's field path is the path under which the source's response holds it.
C10_MostRecentProducer ==
    \A e \in Range(deps) :
        /\ \A m \in Positions : (e.from < m /\ m < e.to) => ~MapHas(ProducedBy(m), e.value)
        /\ MapHas(ProducedBy(e.from), e.value)
        /\ e.via = MapGet(ProducedBy(e.from), e.value).path

\* C10 witness: an edge whose matched value was also produced by a record
\* before the edge's source, under another path.
C10_Witness ==
    /\ pc = "returned"
    /\ \E e \in Range(deps), j \in Positions :
          /\ j < e.from
          /\ MapHas(ProducedBy(j), e.value)
          /\ MapGet(ProducedBy(j), e.value).path # e.via

-----------------------------------------------------------------------------
(* The filter and sort steps of process() *)

\* the value JSON.parse returns for a HAR text: an object whose log.entries
\* is the array `entries`
Har(entries) == [t |-> "har", v |-> entries]

\* rawHar.log && Array.isArray(rawHar.log.entries)
HasEntries(raw) == raw.t = "har"

Whitespace == {" ", "\t", "\n", "\r"}

\* String.prototype.trim
RECURSIVE TrimStart(_)
TrimStart(s) ==
    IF s # <<>> /\ s[1] \in Whitespace THEN TrimStart(Tail(s)) ELSE s
RECURSIVE TrimEnd(_)
TrimEnd(s) ==
    IF s # <<>> /\ s[Len(s)] \in Whitespace
    THEN TrimEnd(SubSeq(s, 1, Len(s) - 1)) ELSE s
Trim(s) == TrimEnd(TrimStart(s))

\* String.prototype.split('\n')
RECURSIVE SplitLines(_)
SplitLines(s) ==
    LET nl == IndexOfFrom(s, <<"\n">>, 1)
    IN  IF nl = 0 THEN <<s>>
        ELSE <<SubSeq(s, 1, nl - 1)>> \o SplitLines(SubSeq(s, nl + 1, Len(s)))

NonEmpty(s) == s # <<>>

\* getExcludePatterns() for the textarea value `value`
GetExcludePatterns(value) ==
    LET lines == SplitLines(value)
    IN  SelectSeq([k \in 1..Len(lines) |-> Trim(lines[k])], NonEmpty)

\* the callback of entries.filter, lines 582-587
Retained(entry, enabled, excludes) ==
    /\ ToLowerCase(ResourceTypeOf(entry)) \in enabled
    /\ ~\E k \in 1..Len(excludes) : Includes(entry.request.url, excludes[k])

\* entries.filter(...)
RECURSIVE FilterEntries(_, _, _)
FilterEntries(entries, enabled, excludes) ==
    IF entries = <<>> THEN <<>>
    ELSE (IF Retained(Head(entries), enabled, excludes) THEN <<Head(entries)>> ELSE <<>>)
         \o FilterEntries(Tail(entries), enabled, excludes)

\* the comparator of the sort, line 590
CompareTime(a, b) == DateValue(a.startedDateTime) - DateValue(b.startedDateTime)

RECURSIVE InsertByTimeBeforeEqual(_, _)
InsertByTimeBeforeEqual(sorted, e) ==
    IF sorted = <<>> THEN <<e>>
    ELSE IF CompareTime(Head(sorted), e) < 0
         THEN <<Head(sorted)>> \o InsertByTimeBeforeEqual(Tail(sorted), e)
         ELSE <<e>> \o sorted

\* Array.prototype.sort with CompareTime: a stable sort (insertion after
\* every element that does not compare greater)
RECURSIVE InsertByTime(_, _)
InsertByTime(sorted, e) ==
    IF sorted = <<>> THEN <<e>>
    ELSE IF CompareTime(Head(sorted), e) <= 0
         THEN <<Head(sorted)>> \o InsertByTime(Tail(sorted), e)
         ELSE <<e>> \o sorted
RECURSIVE SortByTime(_)
SortByTime(entries) ==
    IF entries = <<>> THEN <<>>
    ELSE InsertByTime(SortByTime(SubSeq(entries, 1, Len(entries) - 1)),
                      entries[Len(entries)])

-----------------------------------------------------------------------------
(* SpecFilter: the filter and sort steps over any trace of at most         *)
(* MaxRecords transactions and a range of filter settings                  *)

\* textarea values the specifications type into #excludePatterns
ExcludeTexts == {<<>>, <<" ","/","u","/"," ">> \o <<"\n", "\n">> \o <<"l","o","g","i","n">>, <<"x",".","i","o">>}

\* checkbox settings: the defaults, every box checked, every box but fetch
TypeSettings == {DefaultEnabledTypes, CheckboxValues, CheckboxValues \ {<<"f","e","t","c","h">>}}

InitFilter ==
    /\ \E entries \in TracesUpTo(MaxRecords) :
          /\ rawHar = Har(entries)
          /\ filtered = entries
    /\ fileName = <<"a", ".", "h", "a", "r">>
    /\ enabledTypes \in TypeSettings
    /\ excludePatterns \in ExcludeTexts
    /\ showAllHeaders = FALSE
    /\ uploadHidden = FALSE
    /\ resultsHidden = TRUE
    /\ errorVisible = FALSE
    /\ errorText = ""
    /\ statsEl = <<>>
    /\ yamlOutput = <<>>
    /\ mermaidOutput = NoDiagram
    /\ requestsList = <<>>
    /\ reads = {}
    /\ renders = {}
    /\ timer = FALSE
    /\ timerLeft = 0
    /\ burst = NoBurst
    /\ graph = <<>>
    /\ lastRun = NoRun
    /\ rerun = NoRerun
    /\ ConverterIdle
    /\ requests = <<>>
    /\ deps = <<>>
    /\ valueMap = NewMap
    /\ i = 0
    /\ pc = "filter"

\* lines 581-587
FilterStep ==
    /\ pc = "filter"
    /\ filtered' = FilterEntries(rawHar.v, enabledTypes,
                                 GetExcludePatterns(excludePatterns))
    /\ pc' = "sort"
    /\ UNCHANGED <<requests, deps, valueMap, i>>
    /\ UNCHANGED pageVars

\* line 590
SortStep ==
    /\ pc = "sort"
    /\ filtered' = SortByTime(filtered)
    /\ pc' = "sorted"
    /\ UNCHANGED <<requests, deps, valueMap, i>>
    /\ UNCHANGED pageVars

NextFilter == FilterStep \/ SortStep

SpecFilter == InitFilter /\ [][NextFilter]_vars

\* how often x occurs in seq
Count(seq, x) == Cardinality({k \in 1..Len(seq) : seq[k] = x})

\* seq is in non-decreasing timestamp order
TimeOrdered(seq) ==
    \A a \in 1..Len(seq), b \in 1..Len(seq) :
        a < b => DateValue(seq[a].startedDateTime) <= DateValue(seq[b].startedDateTime)

\* C6: with an empty exclusion list and every resource-type checkbox checked,
\* the filter step retains every transaction of the trace (each as often as
\* the trace holds it) and the retained sequence is in timestamp order.
C6_AllRetained ==
    ( /\ pc = "sorted"
      /\ GetExcludePatterns(excludePatterns) = <<>>
      /\ enabledTypes = CheckboxValues )
    => /\ Len(filtered) = Len(rawHar.v)
       /\ \A e \in Range(rawHar.v) : Count(filtered, e) = Count(rawHar.v, e)
       /\ TimeOrdered(filtered)

-----------------------------------------------------------------------------
(* Rendering: generateYaml, renderMermaid, renderRequestsList *)

\* requests.find(r => r.index === idx)
FindByIndex(reqs, idx) ==
    reqs[CHOOSE k \in 1..Len(reqs) :
            /\ reqs[k].index = idx
            /\ \A j \in 1..(k - 1) : reqs[j].index # idx]

\* depDetail[`${from}->${to}`]: the via of the last edge of that pair
DepDetail(ds, from, to) ==
    LET hits == {k \in 1..Len(ds) : ds[k].from = from /\ ds[k].to = to}
    IN  ds[CHOOSE k \in hits : \A j \in hits : j <= k].via

\* the edges into record idx, in the order of deps (depLookup / depsByTo)
RECURSIVE DepsTo(_, _)
DepsTo(ds, idx) ==
    IF ds = <<>> THEN <<>>
    ELSE (IF Head(ds).to = idx THEN <<Head(ds)>> ELSE <<>>) \o DepsTo(Tail(ds), idx)

\* entry.depends_on: `${source.name} (via ${via})` per edge into req
DependsOn(reqs, ds, req) ==
    LET into == DepsTo(ds, req.index)
    IN  [k \in 1..Len(into) |->
            FindByIndex(reqs, into[k].from).name
            \o <<" ","(","v","i","a"," ">> \o DepDetail(ds, into[k].from, req.index) \o <<")">>]

\* generateYaml(requests, deps): the header lines and the object handed to
\* jsyaml.dump (an empty headers list, a null body and an empty depends_on
\* stand for keys that are left out)
GenerateYaml(reqs, ds, fname, raw) ==
    [source |-> fname,
     captured |-> IF Len(reqs) > 0 THEN <<reqs[1].time>> ELSE <<>>,
     requests |-> Len(reqs),
     entries |-> Len(raw.v),
     flow |-> [k \in 1..Len(reqs) |->
                [name |-> reqs[k].name,
                 method |-> reqs[k].method,
                 url |-> reqs[k].url,
                 headers |-> reqs[k].headers,
                 body |-> IF Truthy(reqs[k].body) THEN reqs[k].body ELSE JNull,
                 response |-> [status |-> reqs[k].response.status,
                               content_type |-> reqs[k].response.contentType],
                 depends_on |-> DependsOn(reqs, ds, reqs[k])]]]

\* const maxNodes = 50
maxNodes == 50

\* truncatePath(path, max)
TruncatePath(path, max) ==
    IF Len(path) <= max THEN path
    ELSE <<".",".",".">> \o SubSeq(path, Len(path) - (max - 3) + 1, Len(path))

\* escMermaid(str)
RECURSIVE EscMermaid(_)
EscMermaid(str) ==
    IF str = <<>> THEN <<>>
    ELSE (CASE Head(str) = "\"" -> <<"#","q","u","o","t",";">>
            [] Head(str) \in {"<", ">", "{", "}", "|"} -> <<" ">>
            [] OTHER -> <<Head(str)>>)
         \o EscMermaid(Tail(str))

\* dep.via.split('.').pop()
RECURSIVE LastSegment(_)
LastSegment(via) ==
    LET dot == IndexOfFrom(via, <<".">>, 1)
    IN  IF dot = 0 THEN via ELSE LastSegment(SubSeq(via, dot + 1, Len(via)))

\* `R${index}`
NodeId(index) == <<"R">> \o Digits(index)

NodeLine(id, label, status) ==
    [kind |-> "node", id |-> id, to |-> <<>>, label |-> label, status |-> status]
StyleLine(id) ==
    [kind |-> "style", id |-> id, to |-> <<>>, label |-> <<>>, status |-> 0]
EdgeLine(from, to, label) ==
    [kind |-> "edge", id |-> from, to |-> to, label |-> label, status |-> 0]

\* lines 873-885: a node line per diagram request, a style line after it
\* when the status is 300 or more
RECURSIVE NodeLines(_)
NodeLines(reqs) ==
    IF reqs = <<>> THEN <<>>
    ELSE LET req == Head(reqs)
         IN  <<NodeLine(NodeId(req.index),
                        EscMermaid(req.method \o <<" ">> \o TruncatePath(req.path, 40)),
                        req.response.status)>>
             \o (IF req.response.status >= 300 THEN <<StyleLine(NodeId(req.index))>> ELSE <<>>)
             \o NodeLines(Tail(reqs))

\* every edge drawn, those beyond the cap too
DrawnAll(dep) == TRUE

\* line 890: the edges that are drawn
Drawn(dep) == ~(dep.to >= maxNodes \/ dep.from >= maxNodes)

\* lines 888-894: an edge line per drawn dependency
RECURSIVE DepLines(_)
DepLines(ds) ==
    IF ds = <<>> THEN <<>>
    ELSE (IF Drawn(Head(ds))
          THEN <<EdgeLine(NodeId(Head(ds).from), NodeId(Head(ds).to),
                          EscMermaid(LastSegment(Head(ds).via)))>>
          ELSE <<>>)
         \o DepLines(Tail(ds))

HasIncomingSources(ds) == {ds[k].from : k \in {j \in 1..Len(ds) : Drawn(ds[j])}}

\* the set hasIncoming after the edge loop
HasIncoming(ds) == {ds[k].to : k \in {j \in 1..Len(ds) : Drawn(ds[j])}}

\* a Start edge for the first diagram request only
StartLinesFirstOnly(reqs, incoming) ==
    IF reqs = <<>> \/ Head(reqs).index \in incoming THEN <<>>
    ELSE <<EdgeLine(<<"S","t","a","r","t">>, NodeId(Head(reqs).index), <<>>)>>

\* lines 896-901: a Start edge for every diagram request without incoming edge
RECURSIVE StartLines(_, _)
StartLines(reqs, incoming) ==
    IF reqs = <<>> THEN <<>>
    ELSE (IF Head(reqs).index \notin incoming
          THEN <<EdgeLine(<<"S","t","a","r","t">>, NodeId(Head(reqs).index), <<>>)>>
          ELSE <<>>)
         \o StartLines(Tail(reqs), incoming)

\* renderMermaid(requests, deps) up to its await, for a non-empty list: the
\* lines of `graph` after 'flowchart TD'
BuildGraph(reqs, ds) ==
    LET diagramRequests == SubSeq(reqs, 1, IF Len(reqs) < maxNodes THEN Len(reqs) ELSE maxNodes)
        truncated == Len(reqs) > maxNodes
    IN  <<NodeLine(<<"S","t","a","r","t">>, <<"S","t","a","r","t">>, 0)>>
        \o NodeLines(diagramRequests)
        \o DepLines(ds)
        \o StartLines(diagramRequests, HasIncoming(ds))
        \o (IF truncated
            THEN <<NodeLine(<<"M","o","r","e">>, <<".",".","."," ","a","n","d"," ">> \o Digits(Len(reqs) - maxNodes) \o <<" ","m","o","r","e">>, 0),
                   StyleLine(<<"M","o","r","e">>)>>
            ELSE <<>>)

\* renderRequestsList(requests, deps): per card its badges, path and the
\* names on its dependency tags
RenderRequestsList(reqs, ds) ==
    [k \in 1..Len(reqs) |->
        LET reqDeps == DepsTo(ds, reqs[k].index)
        IN  [method |-> reqs[k].method,
             status |-> reqs[k].response.status,
             path |-> reqs[k].path,
             depTags |-> [d \in 1..Len(reqDeps) |->
                            FindByIndex(reqs, reqDeps[d].from).name]]]

-----------------------------------------------------------------------------
(* process() and the page's handlers *)

\* FileReaders that can be reading at once
MaxPending == 2
\* mermaid.render calls that can be pending at once
MaxRenders == 2

\* a run of process() whose filtered array is rawHar.log.entries itself
\* (no copy): the filter and the sort change the loaded trace
TraceAliased(raw, kept) == Har(kept)

\* rawHar after lines 582-590: entries.filter returns a new array and
\* filtered.sort reorders that array, so the loaded trace is as it was
TraceAfterSort(raw, kept) == raw

\* what one completed run of process() leaves, lines 596-606, from the
\* filtered entries kept, the records reqs and the result found of
\* detectDependencies
RunOutputs(raw, fname, kept, reqs, found) ==
    [raw |-> TraceAfterSort(raw, kept),
     filtered |-> kept,
     requests |-> reqs,
     deps |-> found.deps,
     valueMap |-> found.valueMap,
     stats |-> [requests |-> Len(reqs), entries |-> Len(raw.v),
                deps |-> Len(found.deps), fileName |-> fname],
     yaml |-> GenerateYaml(reqs, found.deps, fname, raw),
     graph |-> IF Len(reqs) = 0 THEN <<>> ELSE BuildGraph(reqs, found.deps),
     list |-> RenderRequestsList(reqs, found.deps)]

\* line 596: const deps = detectDependencies(requests)
RunDetected(raw, fname, kept, reqs) ==
    RunOutputs(raw, fname, kept, reqs, DetectLoop(reqs, 0, StartMap(reqs), <<>>))

RunParsedRawPosition(raw, fname, kept, allHeaders) ==
    RunDetected(raw, fname, kept,
                [k \in 1..Len(kept) |->
                    ParseEntry(kept[k],
                               (CHOOSE j \in 1..Len(raw.v) : raw.v[j] = kept[k]) - 1,
                               allHeaders)])

\* line 593: const requests = filtered.map(parseEntry)
RunParsed(raw, fname, kept, allHeaders) ==
    RunDetected(raw, fname, kept, ParseEntries(kept, allHeaders))

\* what one completed run of process() computes, lines 576-606
ProcessRun(raw, fname, enabled, text, allHeaders) ==
    RunParsed(raw, fname,
              SortByTime(FilterEntries(raw.v, enabled, GetExcludePatterns(text))),
              allHeaders)

runVars == <<statsEl, yamlOutput, mermaidOutput, requestsList, renders, graph,
             filtered, requests, deps, valueMap, uploadHidden, resultsHidden,
             lastRun, rerun>>

\* renderMermaid(requests, deps) up to its await: "No requests to diagram" at
\* once, or a pending mermaid.render of the graph g
RenderMermaid(reqs, g) ==
    IF Len(reqs) = 0
    THEN /\ mermaidOutput' = [kind |-> "empty", graph |-> <<>>]
         /\ UNCHANGED renders
    ELSE /\ g \in renders \/ Cardinality(renders) < MaxRenders
         /\ renders' = renders \cup {g}
         /\ UNCHANGED mermaidOutput

\* the writes of process(), lines 599-610, with the outputs out of the run;
\* inputs are the settings the run read
ShowRun(out, inputs, fresh) ==
    /\ rawHar' = out.raw
    /\ filtered' = out.filtered
    /\ requests' = out.requests
    /\ deps' = out.deps
    /\ valueMap' = out.valueMap
    /\ statsEl' = out.stats
    /\ yamlOutput' = out.yaml
    /\ graph' = out.graph
    /\ RenderMermaid(out.requests, out.graph)
    /\ requestsList' = out.list
    /\ uploadHidden' = TRUE
    /\ resultsHidden' = FALSE
    /\ lastRun' = inputs
    /\ rerun' = IF ~fresh /\ lastRun = inputs
                THEN [repeat |-> TRUE,
                      same |-> /\ out.requests = requests
                               /\ out.deps = deps
                               /\ out.yaml = yamlOutput]
                ELSE NoRerun

\* process() on the trace raw with the given settings. fresh: the run that
\* follows the assignment of rawHar in reader.onload
Process(raw, fname, enabled, text, allHeaders, fresh) ==
    ShowRun(ProcessRun(raw, fname, enabled, text, allHeaders),
            [ran |-> TRUE, enabled |-> enabled, text |-> text,
             allHeaders |-> allHeaders],
            fresh)

\* reprocess(): if (rawHar) process(); process throws at rawHar.log.entries
\* when rawHar has no log, before it changes anything
Reprocess(enabled, text, allHeaders) ==
    IF Truthy(rawHar) /\ HasEntries(rawHar)
    THEN Process(rawHar, fileName, enabled, text, allHeaders, FALSE)
    ELSE /\ UNCHANGED runVars
         /\ UNCHANGED rawHar

\* the files a user hands to the page
FileA == [name |-> <<"a",".","h","a","r">>,
          text |-> [parsed |-> TRUE, json |-> Har(<<EApi, ELogin, EEcho>>)]]
\* valid JSON without log.entries: {}
FileNoLog == [name |-> <<"c",".","h","a","r">>, text |-> [parsed |-> TRUE, json |-> JObj(<<>>)]]
\* not JSON
FileBroken == [name |-> <<"d",".","h","a","r">>, text |-> [parsed |-> FALSE, json |-> JNull]]
\* not a .har name
FileTxt == [name |-> <<"n","o","t","e","s",".","t","x","t">>, text |-> [parsed |-> FALSE, json |-> JNull]]
Files == {FileA, FileNoLog, FileBroken, FileTxt}

\* the text of a file is rejected by reader.onload
Rejected(file) == ~file.text.parsed \/ ~HasEntries(file.text.json)

Init ==
    /\ PageIdle
    /\ filtered = <<>>
    /\ requests = <<>>
    /\ deps = <<>>
    /\ valueMap = NewMap
    /\ i = 0
    /\ pc = "page"

\* handleFile(file) without the visibility of the upload controls
HandleFileAnytime(file) ==
    /\ IF ~EndsWith(file.name, <<".","h","a","r">>)
       THEN /\ errorText' = "Please upload a .har file"
            /\ errorVisible' = TRUE
            /\ UNCHANGED <<fileName, reads>>
       ELSE /\ file \in reads \/ Cardinality(reads) < MaxPending
            /\ errorVisible' = FALSE
            /\ fileName' = file.name
            /\ reads' = reads \cup {file}
            /\ UNCHANGED errorText
    /\ UNCHANGED <<rawHar, enabledTypes, excludePatterns, showAllHeaders, timer,
                   i, pc, jiraVars, timeVars>>
    /\ UNCHANGED runVars

\* handleFile(file), from a drop on #dropzone or a change of #fileInput. The
\* upload controls belong to uploadSection, which process() hides and
\* resetUI() shows again (lines 609, 1044): no file can be handed in while it
\* is hidden.
HandleFile(file) ==
    /\ ~uploadHidden
    /\ HandleFileAnytime(file)

\* reader.onload for a pending read, lines 560-570
ReaderOnload(file) ==
    /\ file \in reads
    /\ reads' = reads \ {file}
    /\ IF ~file.text.parsed
       THEN \* JSON.parse throws: rawHar is not assigned
            /\ errorText' = "Failed to parse HAR: (JSON.parse message)"
            /\ errorVisible' = TRUE
            /\ UNCHANGED rawHar
            /\ UNCHANGED runVars
       ELSE /\ IF ~HasEntries(file.text.json)
               THEN /\ rawHar' = file.text.json
                    /\ errorText' = "Failed to parse HAR: Invalid HAR format: missing log.entries"
                    /\ errorVisible' = TRUE
                    /\ UNCHANGED runVars
               ELSE /\ Process(file.text.json, fileName, enabledTypes,
                               excludePatterns, showAllHeaders, TRUE)
                    /\ UNCHANGED <<errorText, errorVisible>>
    /\ UNCHANGED <<fileName, enabledTypes, excludePatterns, showAllHeaders, timer,
                   i, pc, jiraVars, timeVars>>

\* a change event of a resource-type checkbox: reprocess
ToggleType(type) ==
    /\ LET enabled == IF type \in enabledTypes
                      THEN enabledTypes \ {type} ELSE enabledTypes \cup {type}
       IN  /\ enabledTypes' = enabled
           /\ Reprocess(enabled, excludePatterns, showAllHeaders)
    /\ UNCHANGED <<fileName, excludePatterns, showAllHeaders, errorVisible,
                   errorText, reads, timer, i, pc, jiraVars, timeVars>>

\* a change event of #showAllHeaders: reprocess
ToggleAllHeaders ==
    /\ showAllHeaders' = ~showAllHeaders
    /\ Reprocess(enabledTypes, excludePatterns, ~showAllHeaders)
    /\ UNCHANGED <<fileName, enabledTypes, excludePatterns, errorVisible,
                   errorText, reads, timer, i, pc, jiraVars, timeVars>>

\* line 547: debounce(reprocess, 300)
DebounceMs == 300

\* the steps in which the model lets the delay of the timer pass
TicksPerDelay == 3

\* the milliseconds that pass in one step
TickMs == DebounceMs \div TicksPerDelay

\* the burst after one more input event
BurstInput ==
    IF timer
    THEN [events |-> 2, elapsed |-> 0, runs |-> burst.runs]
    ELSE [events |-> 1, elapsed |-> 0, runs |-> 0]

\* an input event handled by a closure that sets the timer only when none is
\* pending (no clearTimeout)
ExcludeInputKeepsTimer(text) ==
    /\ excludePatterns' = text
    /\ timer' = TRUE
    /\ timerLeft' = IF timer THEN timerLeft ELSE DebounceMs
    /\ burst' = BurstInput
    /\ UNCHANGED <<rawHar, fileName, enabledTypes, showAllHeaders, errorVisible,
                   errorText, reads, i, pc, jiraVars>>
    /\ UNCHANGED runVars

\* an input event of #excludePatterns: the closure of debounce(reprocess, 300)
\* clears the timer and sets it again, lines 1081-1084
ExcludeInput(text) ==
    /\ excludePatterns' = text
    /\ timer' = TRUE
    /\ timerLeft' = DebounceMs
    /\ burst' = BurstInput
    /\ UNCHANGED <<rawHar, fileName, enabledTypes, showAllHeaders, errorVisible,
                   errorText, reads, i, pc, jiraVars>>
    /\ UNCHANGED runVars

\* time passes while the timer is set
Tick ==
    /\ timer
    /\ timerLeft > 0
    /\ timerLeft' = IF timerLeft > TickMs THEN timerLeft - TickMs ELSE 0
    /\ burst' = [burst EXCEPT !.elapsed = @ + (timerLeft - timerLeft')]
    /\ UNCHANGED <<rawHar, fileName, enabledTypes, excludePatterns, showAllHeaders,
                   errorVisible, errorText, reads, timer, i, pc, jiraVars>>
    /\ UNCHANGED runVars

\* the timer expires and calls reprocess, line 1083
DebounceFire ==
    /\ timer
    /\ timerLeft = 0
    /\ timer' = FALSE
    /\ burst' = [burst EXCEPT !.runs = @ + 1]
    /\ Reprocess(enabledTypes, excludePatterns, showAllHeaders)
    /\ UNCHANGED <<fileName, enabledTypes, excludePatterns, showAllHeaders,
                   errorVisible, errorText, reads, timerLeft, i, pc, jiraVars>>

\* the await of renderMermaid ends: the svg, or the error with the source
RenderSettle(g, ok) ==
    /\ g \in renders
    /\ renders' = renders \ {g}
    /\ mermaidOutput' = [kind |-> IF ok THEN "svg" ELSE "error", graph |-> g]
    /\ UNCHANGED <<rawHar, fileName, enabledTypes, excludePatterns, showAllHeaders,
                   uploadHidden, resultsHidden, errorVisible, errorText, statsEl,
                   yamlOutput, requestsList, reads, timer, filtered, requests,
                   deps, valueMap, graph, i, pc, lastRun, rerun, jiraVars, timeVars>>

\* a resetUI that shows the upload section again and keeps the loaded trace
ResetUIKeepsTrace ==
    /\ fileName' = <<>>
    /\ uploadHidden' = FALSE
    /\ resultsHidden' = TRUE
    /\ errorVisible' = FALSE
    /\ lastRun' = NoRun
    /\ rerun' = NoRerun
    /\ UNCHANGED <<rawHar, enabledTypes, excludePatterns, showAllHeaders, errorText,
                   statsEl, yamlOutput, mermaidOutput, requestsList, reads,
                   renders, timer, filtered, requests, deps, valueMap, graph,
                   i, pc, jiraVars, timeVars>>

\* resetUI(), the click handler of #newFileBtn
ResetUI ==
    /\ rawHar' = JNull
    /\ fileName' = <<>>
    /\ uploadHidden' = FALSE
    /\ resultsHidden' = TRUE
    /\ errorVisible' = FALSE
    /\ lastRun' = NoRun
    /\ rerun' = NoRerun
    /\ UNCHANGED <<enabledTypes, excludePatterns, showAllHeaders, errorText,
                   statsEl, yamlOutput, mermaidOutput, requestsList, reads,
                   renders, timer, filtered, requests, deps, valueMap, graph,
                   i, pc, jiraVars, timeVars>>

-----------------------------------------------------------------------------
(* Spec: the page while files are handed in, read, shown and reset, with   *)
(* the runs of process() that the loads and #showAllHeaders start          *)

Next ==
    \/ \E file \in Files : HandleFile(file)
    \/ \E file \in Files : ReaderOnload(file)
    \/ ToggleAllHeaders
    \/ \E g \in renders, ok \in BOOLEAN : RenderSettle(g, ok)
    \/ ResetUI

Spec == Init /\ [][Next]_vars

\* C9: when the text handed to handleFile is not valid JSON or lacks
\* log.entries, the step of reader.onload that rejects it leaves the error
\* message visible and the results section not visible
C9_RejectionHidesResults ==
    [][\A file \in Files :
          (Rejected(file) /\ ReaderOnload(file)) => (errorVisible' /\ resultsHidden')]_vars

-----------------------------------------------------------------------------
(* SpecSettings: the page with the trace a.har, while the resource-type    *)
(* checkboxes, #showAllHeaders and the exclusion patterns change           *)

\* the checkboxes the specification toggles
ToggleTypes == {<<"s","c","r","i","p","t">>}

\* the texts typed into #excludePatterns
SettingsTexts == {<<>>, <<"x",".","i","o">>}

\* the trace the settings are changed on
SettingsFiles == {FileA}

NextSettings ==
    \/ \E file \in SettingsFiles : HandleFile(file)
    \/ \E file \in SettingsFiles : ReaderOnload(file)
    \/ \E type \in ToggleTypes : ToggleType(type)
    \/ ToggleAllHeaders
    \/ \E text \in SettingsTexts : ExcludeInput(text)
    \/ Tick
    \/ DebounceFire
    \/ \E g \in renders, ok \in BOOLEAN : RenderSettle(g, ok)
    \/ ResetUI

SpecSettings == Init /\ [][NextSettings]_vars

-----------------------------------------------------------------------------
(* SpecMermaid: renderMermaid after a run of process() over traces of up   *)
(* to MaxDiagramRecords transactions                                       *)

\* the longest trace that is drawn
MaxDiagramRecords == 52
\* the positions of Cycle a trace can start at
MaxRotation == 1

\* the transactions a long trace repeats
Cycle == <<EMulti, ELogin, EPage, EApi, EEcho>>

\* a trace of n transactions that goes round Cycle from position r on
LongTrace(n, r) == [k \in 1..n |-> Cycle[((k - 1 + r) % Len(Cycle)) + 1]]

InitMermaid ==
    /\ PageIdle
    /\ \E n \in 0..MaxDiagramRecords, r \in 0..MaxRotation :
          LET kept == SortByTime(FilterEntries(LongTrace(n, r), CheckboxValues, <<>>))
              reqs == ParseEntries(kept, FALSE)
              found == DetectLoop(reqs, 0, StartMap(reqs), <<>>)
          IN  /\ filtered = kept
              /\ requests = reqs
              /\ deps = found.deps
              /\ valueMap = found.valueMap
    /\ i = 0
    /\ pc = "mermaid"

\* the call renderMermaid(requests, deps) of process(), up to its await
DrawDiagram ==
    /\ pc = "mermaid"
    /\ pc' = "drawn"
    /\ graph' = IF Len(requests) = 0 THEN <<>> ELSE BuildGraph(requests, deps)
    /\ RenderMermaid(requests, graph')
    /\ UNCHANGED <<rawHar, fileName, enabledTypes, excludePatterns, showAllHeaders,
                   uploadHidden, resultsHidden, errorVisible, errorText, statsEl,
                   yamlOutput, requestsList, reads, timer, filtered, requests,
                   deps, valueMap, i, lastRun, rerun, jiraVars, timeVars>>

NextMermaid ==
    \/ DrawDiagram
    \/ \E g \in renders, ok \in BOOLEAN : RenderSettle(g, ok)

SpecMermaid == InitMermaid /\ [][NextMermaid]_vars

\* the nodes of a diagram source: the ids its node lines declare and the ids
\* its edge lines name
DiagramNodes(g) ==
    {g[k].id : k \in {j \in 1..Len(g) : g[j].kind \in {"node", "edge"}}}
    \cup {g[k].to : k \in {j \in 1..Len(g) : g[j].kind = "edge"}}

\* the nodes that stand for records
RecordNodes(g) == DiagramNodes(g) \ {<<"S","t","a","r","t">>, <<"M","o","r","e">>}

\* C8 as stated: the diagram source never has more nodes than the cap of 50
\* plus one overflow marker
C8_AtMostCapPlusOne == Cardinality(DiagramNodes(graph)) <= maxNodes + 1

\* C8 amended: the diagram source never has more than 50 record nodes, and
\* never more nodes than the cap plus the Start node plus one overflow marker
C8_AtMostCapPlusStartPlusOne ==
    /\ Cardinality(RecordNodes(graph)) <= maxNodes
    /\ Cardinality(DiagramNodes(graph)) <= maxNodes + 2

\* a drawn diagram of more records than the cap, with its overflow marker,
\* and with a dependency that ends beyond the cap
C8_Witness ==
    /\ pc = "drawn"
    /\ Len(requests) > maxNodes
    /\ <<"M","o","r","e">> \in DiagramNodes(graph)
    /\ Cardinality(DiagramNodes(graph)) = maxNodes + 2
    /\ \E k \in 1..Len(deps) : deps[k].to >= maxNodes

-----------------------------------------------------------------------------
(* Properties of the edge list and of checkValue (SpecDeps) *)

\* the edges of deps from record s to record n
EdgesBetween(s, n) == {k \in 1..Len(deps) : deps[k].from = s /\ deps[k].to = n}

\* the keys of the Value Index that record s produced
KeysFrom(vmap, s) == {vmap[k].key : k \in {j \in 1..Len(vmap) : vmap[j].reqIndex = s}}

\* C12: no two edges returned by detectDependencies share the same
\* (from, to) pair.
C12_OneEdgePerPair ==
    \A a, b \in 1..Len(deps) :
        (deps[a].from = deps[b].from /\ deps[a].to = deps[b].to) => a = b

\* C12 witness: a destination with edges from two distinct sources, one of
\* which it reuses in more than one field.
C12_Witness ==
    /\ pc = "returned"
    /\ \E a, b \in 1..Len(deps) :
          /\ deps[a].to = deps[b].to
          /\ deps[a].from # deps[b].from
          /\ Cardinality({k \in 1..Len(Candidates(requests[deps[a].to + 1])) :
                 Includes(Candidates(requests[deps[a].to + 1])[k].v, deps[a].value)}) >= 2

\* record i, just scanned, holds two different strings that are both keys the
\* Value Index has from record s
ReusesTwoValuesOf(s) ==
    /\ pc = "index"
    /\ i > 0
    /\ Cardinality(CandidateStrings(i) \cap KeysFrom(valueMap, s)) >= 2

\* C13 as stated: when a destination record reuses two different values
\* indexed from the same source record, the edge list holds more than one
\* edge with that (source, destination) pair.
C13_SeveralEdgesPerPair ==
    \A s \in Positions : ReusesTwoValuesOf(s) => Cardinality(EdgesBetween(s, i)) > 1

\* C13 amended: when a destination record reuses two different values
\* indexed from the same source record, the edge list holds exactly one edge
\* with that (source, destination) pair.
C13_OneEdgeForTwoValues ==
    \A s \in Positions : ReusesTwoValuesOf(s) => Cardinality(EdgesBetween(s, i)) = 1

\* C13 witness: such a destination, scanned, with its one edge.
C13_Witness ==
    \E s \in Positions : ReusesTwoValuesOf(s) /\ Cardinality(EdgesBetween(s, i)) = 1

\* C14: an edge into a record rests on a candidate string that equals its
\* matched value exactly, or on a candidate string that has no exact match in
\* the Value Index and contains the matched value: a candidate that equals an
\* indexed value never yields an edge to a source whose value is merely a
\* substring of it.
C14_SubstringOnlyWithoutExact ==
    pc = "index" =>
        \A k \in 1..Len(deps) :
            deps[k].to = i =>
                \/ deps[k].value \in CandidateStrings(i)
                \/ \E c \in CandidateStrings(i) :
                      ~MapHas(valueMap, c) /\ Includes(c, deps[k].value)

\* the closure's (found, seen) after the first m candidate strings of record
\* i were handed to checkValue
FoundUpTo(m) ==
    CheckAll(SubSeq(Candidates(requests[i + 1]), 1, m), 1, valueMap,
             [seen |-> {}, found |-> <<>>])

\* the candidate m of record i goes to the substring loop for want of an
\* exact match
NoExactMatch(m) ==
    LET c == Candidates(requests[i + 1])[m]
    IN  c.t = "str" /\ Len(c.v) > MinValueLen /\ ~MapHas(valueMap, c.v)

\* the source records of the indexed values that candidate m contains and
\* that are not yet sources of record i
NewSourcesIn(m) ==
    {valueMap[k].reqIndex :
        k \in {j \in 1..Len(valueMap) :
                  Includes(Candidates(requests[i + 1])[m].v, valueMap[j].key)}}
    \ FoundUpTo(m - 1).seen

\* the edges that candidate m adds
AddedBy(m) ==
    SubSeq(FoundUpTo(m).found, Len(FoundUpTo(m - 1).found) + 1, Len(FoundUpTo(m).found))

\* C15: a candidate string without exact match adds exactly one edge per
\* source record, not yet a source of this record, of which it contains an
\* indexed value: k such sources give k edges.
C15_OneEdgePerContainedSource ==
    (pc = "index" /\ i > 0) =>
        /\ \A m \in 1..Len(Candidates(requests[i + 1])) :
              NoExactMatch(m) =>
                  /\ Len(AddedBy(m)) = Cardinality(NewSourcesIn(m))
                  /\ {e.sourceIndex : e \in Range(AddedBy(m))} = NewSourcesIn(m)
        /\ Cardinality({k \in 1..Len(deps) : deps[k].to = i})
              = Len(FoundUpTo(Len(Candidates(requests[i + 1]))).found)

\* C15 witness: a candidate without exact match that contains indexed values
\* of two new sources, the second of them not at the first hit.
C15_Witness ==
    /\ pc = "index"
    /\ i > 0
    /\ \E m \in 1..Len(Candidates(requests[i + 1])) :
          /\ NoExactMatch(m)
          /\ Cardinality(NewSourcesIn(m)) >= 2
          /\ Len(AddedBy(m)) >= 2

-----------------------------------------------------------------------------
(* SpecParse: parseEntry over one transaction whose body texts are empty,  *)
(* JSON, or unstructured text of a length around the ceiling of line 650   *)

\* how far below and above the ceiling the lengths of the texts go
Slack == 1

\* unstructured text of n characters (JSON.parse throws on it)
Filler(n) == RawText([k \in 1..n |-> "x"])

BodyTexts ==
    {NoText, JsonText(JObj(<<KV(<<"u","s","e","r">>, JStr(<<"b","o","b">>))>>)), JsonText(JNum(0))}
    \cup {Filler(n) : n \in (MaxRawBody - Slack)..(MaxRawBody + Slack)}

EBody(postData, text) ==
    Entry(<<"f","e","t","c","h">>, 1, 0, <<"P","O","S","T">>, <<"h","t","t","p","s",":","/","/","x",".","i","o","/","u","p","l","o","a","d">>,
          <<H(<<"D","N","T">>, <<"1">>), H(<<"A","c","c","e","p","t">>, <<"*","/","*">>)>>,
          postData, 200, <<"t","e","x","t","/","p","l","a","i","n">>, text)

InitParse ==
    /\ PageIdle
    /\ \E postData \in BodyTexts, text \in BodyTexts :
          filtered = <<EBody(postData, text)>>
    /\ requests = <<>>
    /\ deps = <<>>
    /\ valueMap = NewMap
    /\ i = 0
    /\ pc = "parse"

\* line 593: one call of the map callback, parseEntry(entry, i, allHeaders)
ParseStep(allHeaders) ==
    /\ pc = "parse"
    /\ i < Len(filtered)
    /\ requests' = Append(requests, ParseEntry(filtered[i + 1], i, allHeaders))
    /\ i' = i + 1
    /\ UNCHANGED <<filtered, deps, valueMap, pc>>
    /\ UNCHANGED pageVars

\* line 593: map returns the records
ParseReturn ==
    /\ pc = "parse"
    /\ i = Len(filtered)
    /\ pc' = "parsed"
    /\ UNCHANGED <<filtered, requests, deps, valueMap, i>>
    /\ UNCHANGED pageVars

NextParse == (\E allHeaders \in BOOLEAN : ParseStep(allHeaders)) \/ ParseReturn

SpecParse == InitParse /\ [][NextParse]_vars

\* the request text and the response text record k (1-based) was parsed from
PostDataOf(k) == filtered[k].request.postData
ContentTextOf(k) == filtered[k].response.content.text

Unparsed(text) == text.chars # <<>> /\ ~text.parsed

\* C16 as stated: for the request body and for the response body, text that
\* does not parse as JSON is kept as raw text only when it is shorter than
\* 5000 characters, and unparsed text of 5000 characters or more becomes null.
C16_CeilingOnBothBodies ==
    \A k \in 1..Len(requests) :
        /\ Unparsed(PostDataOf(k)) =>
              IF Len(PostDataOf(k).chars) < MaxRawBody
              THEN requests[k].body = JStr(PostDataOf(k).chars)
              ELSE requests[k].body = JNull
        /\ Unparsed(ContentTextOf(k)) =>
              IF Len(ContentTextOf(k).chars) < MaxRawBody
              THEN requests[k].response.body = JStr(ContentTextOf(k).chars)
              ELSE requests[k].response.body = JNull

\* C16 as amended: the ceiling applies to the response body only. Response
\* text that does not parse as JSON is kept as raw text when it is shorter
\* than 5000 characters and becomes null otherwise; request text that does
\* not parse as JSON is kept as raw text whatever its length.
C16_CeilingOnResponseOnly ==
    \A k \in 1..Len(requests) :
        /\ Unparsed(PostDataOf(k)) =>
              requests[k].body = JStr(PostDataOf(k).chars)
        /\ Unparsed(ContentTextOf(k)) =>
              IF Len(ContentTextOf(k).chars) < MaxRawBody
              THEN requests[k].response.body = JStr(ContentTextOf(k).chars)
              ELSE requests[k].response.body = JNull

\* a record parsed from a response text of exactly 5000 characters and a
\* request text of one character less
C16_Witness ==
    /\ pc = "parsed"
    /\ Len(requests) = 1
    /\ Unparsed(ContentTextOf(1))
    /\ Len(ContentTextOf(1).chars) = MaxRawBody
    /\ requests[1].response.body = JNull
    /\ Unparsed(PostDataOf(1))
    /\ Len(PostDataOf(1).chars) = MaxRawBody - 1
    /\ requests[1].body.t = "str"

-----------------------------------------------------------------------------
(* Properties of the record indices (SpecSettings) *)

\* the positions (1-based) of the records whose index is idx
RecordsWithIndex(idx) == {k \in 1..Len(requests) : requests[k].index = idx}

\* C17: after every run of process(), the record at position k (from 0) of
\* the Request Record sequence has index k, every edge's from and to are the
\* index of exactly one record, and the lookup by index of generateYaml and
\* renderRequestsList finds that record.
C17_IndexIsPosition ==
    lastRun.ran =>
        /\ \A k \in 1..Len(requests) : requests[k].index = k - 1
        /\ \A e \in Range(deps) : \A idx \in {e.from, e.to} :
              /\ Cardinality(RecordsWithIndex(idx)) = 1
              /\ FindByIndex(requests, idx) = requests[idx + 1]

\* a run with an edge whose source record stands first in the record
\* sequence and second in the raw trace, the third transaction filtered out
C17_Witness ==
    /\ lastRun.ran
    /\ Len(rawHar.v) = 3
    /\ Len(requests) = 2
    /\ \E e \in Range(deps) :
          /\ e.from = 0
          /\ requests[1].url = rawHar.v[2].request.url
          /\ requests[e.to + 1].url = rawHar.v[1].request.url

-----------------------------------------------------------------------------
(* Properties of the filter and sort steps (SpecFilter) *)

\* the positions (1-based) in the raw trace of the transactions whose
\* resource type is enabled and whose URL contains no exclusion pattern
KeptPositions ==
    {k \in 1..Len(rawHar.v) :
        /\ ToLowerCase(ResourceTypeOf(rawHar.v[k])) \in enabledTypes
        /\ \A p \in Range(GetExcludePatterns(excludePatterns)) :
              ~Includes(rawHar.v[k].request.url, p)}

\* raw position a comes before raw position b in the output: the earlier
\* timestamp first, and the raw order for equal timestamps
ComesBefore(a, b) ==
    LET ta == DateValue(rawHar.v[a].startedDateTime)
        tb == DateValue(rawHar.v[b].startedDateTime)
    IN  ta < tb \/ (ta = tb /\ a < b)

\* C18: the filter-and-sort step outputs exactly the transactions whose
\* resource type is enabled and whose URL contains none of the exclusion
\* patterns, ordered by timestamp, transactions of equal timestamps in the
\* relative order they have in the raw trace.
C18_FilteredSortedStable ==
    pc = "sorted" =>
        /\ Len(filtered) = Cardinality(KeptPositions)
        /\ \E from \in [1..Len(filtered) -> KeptPositions] :
              /\ \A j \in 1..Len(filtered) : filtered[j] = rawHar.v[from[j]]
              /\ \A a \in 1..Len(filtered), b \in 1..Len(filtered) :
                    a < b => ComesBefore(from[a], from[b])

\* an output in which the sort moved the first transaction of the trace
\* behind two different transactions of equal timestamps, which keep their
\* raw order
C18_Witness ==
    /\ pc = "sorted"
    /\ Len(rawHar.v) = 3
    /\ filtered = <<rawHar.v[2], rawHar.v[3], rawHar.v[1]>>
    /\ rawHar.v[2] # rawHar.v[3]
    /\ DateValue(rawHar.v[2].startedDateTime) = DateValue(rawHar.v[3].startedDateTime)

-----------------------------------------------------------------------------
(* Properties of the Start edges (SpecMermaid) *)

\* the record nodes the diagram source declares
DisplayedRecords(g) ==
    {g[k].id : k \in {j \in 1..Len(g) : g[j].kind = "node"}} \ {<<"S","t","a","r","t">>, <<"M","o","r","e">>}

\* the nodes with an edge line from Start, and those with an edge line from
\* a record node
StartAnchored(g) ==
    {g[k].to : k \in {j \in 1..Len(g) : g[j].kind = "edge" /\ g[j].id = <<"S","t","a","r","t">>}}
DependencyTargets(g) ==
    {g[k].to : k \in {j \in 1..Len(g) : g[j].kind = "edge" /\ g[j].id # <<"S","t","a","r","t">>}}

\* C19: in the diagram source built by renderMermaid, a displayed record
\* node has an edge from the Start node if and only if no dependency edge is
\* drawn into it.
C19_StartIffNoIncoming ==
    \A node \in DisplayedRecords(graph) :
        node \in StartAnchored(graph) <=> node \notin DependencyTargets(graph)

\* a drawn diagram of more records than the cap, with record nodes anchored
\* to Start, record nodes with a dependency drawn into them, and a
\* dependency that is not drawn
C19_Witness ==
    /\ pc = "drawn"
    /\ Len(requests) > maxNodes
    /\ Cardinality(DisplayedRecords(graph)) = maxNodes
    /\ DisplayedRecords(graph) \cap StartAnchored(graph) # {}
    /\ DisplayedRecords(graph) \cap DependencyTargets(graph) # {}
    /\ \E k \in 1..Len(deps) : ~Drawn(deps[k])

-----------------------------------------------------------------------------
(* Properties of overlapping runs (SpecSettings) *)

\* C20: when a run of process() starts while the diagram rendering of the
\* run before it is pending, then once the renderings of both runs have
\* completed, in either order, the displayed diagram is the one of the most
\* recent run, whose document and request list are displayed.
C20_LatestDiagramShown ==
    (lastRun.ran /\ graph # <<>> /\ renders = {}) => mermaidOutput.graph = graph

-----------------------------------------------------------------------------
(* The Jira/Markdown converter page (src/jiradown/script.js)               *)
(*                                                                         *)
(* Regular expressions are syntax trees, matched as a JavaScript RegExp    *)
(* matches: by backtracking, the alternatives tried in priority order, the *)
(* first success taken. A position is the index of the next character.     *)

\* the character U+0060 (grave accent), which a TLA+ string cannot hold
Backtick == "U+0060"

Lit(c) == [k |-> "set", neg |-> FALSE, s |-> {c}]
OneOf(set) == [k |-> "set", neg |-> FALSE, s |-> set]
NoneOf(set) == [k |-> "set", neg |-> TRUE, s |-> set]
\* [\s\S]
AnyChar == NoneOf({})
LineTerminators == {"\n", "\r"}
\* .
Dot == NoneOf(LineTerminators)
Cat(xs) == [k |-> "seq", xs |-> xs]
Alt(xs) == [k |-> "alt", xs |-> xs]
\* x{min,max}; max = -1: no upper limit; lazy: x{min,max}?
Rep(x, min, max, lazy) ==
    [k |-> "rep", x |-> x, min |-> min, max |-> max, lazy |-> lazy, from |-> 0]
Star(x) == Rep(x, 0, -1, FALSE)
Plus(x) == Rep(x, 1, -1, FALSE)
Opt(x) == Rep(x, 0, 1, FALSE)
LazyStar(x) == Rep(x, 0, -1, TRUE)
\* capturing group number n
Cap(n, x) == [k |-> "cap", n |-> n, x |-> x]
\* ^ and $; m: the multiline flag
Bol(m) == [k |-> "bol", m |-> m]
Eol(m) == [k |-> "eol", m |-> m]
\* (?!x), and (?<!x) for a character class x
NotAhead(x) == [k |-> "nla", x |-> x]
NotBehind(x) == [k |-> "nlb", x |-> x]

LowerChars == {UpperToLower[c] : c \in DOMAIN UpperToLower}
UpperChars == DOMAIN UpperToLower
\* [a-zA-Z0-9]
AlnumChars == LowerChars \cup UpperChars \cup {DigitChars[d] : d \in 1..10}
\* \s, within the characters of the model
SpaceChars == {" ", "\t", "\n", "\r"}

\* a literal text; ci: the i flag
Str(chars, ci) == [k |-> "str", chars |-> chars, ci |-> ci]

Least(set) == CHOOSE q \in set : \A r \in set : q <= r
Greatest(set) == CHOOSE q \in set : \A r \in set : q >= r

NoCaps(n) == [j \in 1..n |-> [set |-> FALSE, from |-> 0, to |-> 0]]
Fail == [ok |-> FALSE, e |-> 0, c |-> <<>>]

\* character c is in the class x
InClass(x, c) == (c \in x.s) # x.neg

\* how many characters from position p on are in the class x, at most max
\* of them when max is not -1
RunLength(x, s, p, max) ==
    LET others == {q \in p..Len(s) : ~InClass(x, s[q])}
        len == IF others = {} THEN Len(s) - p + 1 ELSE Least(others) - p
    IN  IF max >= 0 /\ len > max THEN max ELSE len

\* the match of the nodes of stack, one after the other, in s from position
\* p with the captures caps: the first success in backtracking order
RECURSIVE Run(_, _, _, _)
RECURSIVE OrElse(_, _, _, _, _)
OrElse(r, stack, s, p, caps) == IF r.ok THEN r ELSE Run(stack, s, p, caps)

\* a quantified character class: the greedy form gives back one character
\* at a time, the lazy form takes one more at a time, until the rest matches
RunClassRepPick(lengths, x, rest, s, p, caps) ==
    IF lengths = {} THEN Fail
    ELSE Run(rest, s, p + (IF x.lazy THEN Least(lengths) ELSE Greatest(lengths)), caps)
RunClassRep(x, rest, s, p, caps) ==
    RunClassRepPick({n \in x.min..RunLength(x.x, s, p, x.max) :
                        Run(rest, s, p + n, caps).ok},
                    x, rest, s, p, caps)

\* any other quantified node, one iteration at a time; an iteration that
\* matches nothing is not repeated
RunRep(x, rest, s, p, caps) ==
    LET again == <<x.x, [x EXCEPT !.min = IF x.min > 0 THEN x.min - 1 ELSE 0,
                                  !.max = IF x.max > 0 THEN x.max - 1 ELSE x.max,
                                  !.from = p]>> \o rest
    IN  IF x.from = p THEN Fail
        ELSE IF x.max = 0 THEN Run(rest, s, p, caps)
        ELSE IF x.min > 0 THEN Run(again, s, p, caps)
        ELSE IF x.lazy THEN OrElse(Run(rest, s, p, caps), again, s, p, caps)
        ELSE OrElse(Run(again, s, p, caps), rest, s, p, caps)

\* the characters of s at p are the literal text of x
AtText(x, s, p) ==
    /\ p + Len(x.chars) - 1 <= Len(s)
    /\ LET here == SubSeq(s, p, p + Len(x.chars) - 1)
       IN  IF x.ci THEN ToLowerCase(here) = ToLowerCase(x.chars) ELSE here = x.chars

Run(stack, s, p, caps) ==
    IF stack = <<>> THEN [ok |-> TRUE, e |-> p, c |-> caps]
    ELSE LET x == Head(stack)
             rest == Tail(stack)
         IN  CASE x.k = "set" ->
                    IF p <= Len(s) /\ InClass(x, s[p])
                    THEN Run(rest, s, p + 1, caps) ELSE Fail
               [] x.k = "str" ->
                    IF AtText(x, s, p) THEN Run(rest, s, p + Len(x.chars), caps) ELSE Fail
               [] x.k = "seq" -> Run(x.xs \o rest, s, p, caps)
               [] x.k = "alt" ->
                    IF x.xs = <<>> THEN Fail
                    ELSE OrElse(Run(<<Head(x.xs)>> \o rest, s, p, caps),
                                <<Alt(Tail(x.xs))>> \o rest, s, p, caps)
               [] x.k = "rep" ->
                    IF x.x.k = "set" THEN RunClassRep(x, rest, s, p, caps)
                    ELSE RunRep(x, rest, s, p, caps)
               [] x.k = "cap" ->
                    Run(<<x.x, [k |-> "end", n |-> x.n, from |-> p]>> \o rest, s, p, caps)
               [] x.k = "end" ->
                    Run(rest, s, p,
                        [caps EXCEPT ![x.n] = [set |-> TRUE, from |-> x.from, to |-> p]])
               [] x.k = "bol" ->
                    IF p = 1 \/ (x.m /\ s[p - 1] \in LineTerminators)
                    THEN Run(rest, s, p, caps) ELSE Fail
               [] x.k = "eol" ->
                    IF p = Len(s) + 1 \/ (x.m /\ s[p] \in LineTerminators)
                    THEN Run(rest, s, p, caps) ELSE Fail
               [] x.k = "nla" ->
                    IF Run(<<x.x>>, s, p, caps).ok THEN Fail ELSE Run(rest, s, p, caps)
               [] x.k = "nlb" ->
                    IF p > 1 /\ InClass(x.x, s[p - 1])
                    THEN Fail ELSE Run(rest, s, p, caps)

NoMatch == [ok |-> FALSE, from |-> 0, to |-> 0, c |-> <<>>]

\* the positions of s at which re (with n capturing groups) matches
Starts(re, n, s) == {q \in 1..(Len(s) + 1) : Run(<<re>>, s, q, NoCaps(n)).ok}

ExecAt(r, from) == [ok |-> TRUE, from |-> from, to |-> r.e, c |-> r.c]
\* the leftmost match of re among the start positions `starts`
ExecAmong(starts, re, n, s) ==
    IF starts = {} THEN NoMatch
    ELSE ExecAt(Run(<<re>>, s, Least(starts), NoCaps(n)), Least(starts))
\* RegExp.prototype.exec with lastIndex = from - 1: the leftmost match of re
\* that starts at from or later
Exec(re, n, s, from) == ExecAmong({q \in Starts(re, n, s) : q >= from}, re, n, s)

\* the matches a replace with the g flag visits, in order: after a match
\* the search goes on at its end, one further after an empty match
RECURSIVE MatchesAmong(_, _, _, _, _)
MatchesFrom(m, starts, re, n, s) ==
    IF ~m.ok THEN <<>>
    ELSE <<m>> \o MatchesAmong(starts, re, n, s,
                               IF m.to = m.from THEN m.to + 1 ELSE m.to)
MatchesAmong(starts, re, n, s, from) ==
    MatchesFrom(ExecAmong({q \in starts : q >= from}, re, n, s), starts, re, n, s)
AllMatches(re, n, s, from) == MatchesAmong(Starts(re, n, s), re, n, s, from)

\* whether group g took part in match m, and its text ('' when it did not)
HasGroup(m, g) == m.c[g].set
Group(s, m, g) == IF m.c[g].set THEN SubSeq(s, m.c[g].from, m.c[g].to - 1) ELSE <<>>
Matched(s, m) == SubSeq(s, m.from, m.to - 1)

\* s with match ms[j] replaced by reps[j], for j = n..Len(ms); pos: the
\* position after the previous match
RECURSIVE Splice(_, _, _, _, _)
Splice(s, ms, reps, n, pos) ==
    IF n > Len(ms) THEN SubSeq(s, pos, Len(s))
    ELSE SubSeq(s, pos, ms[n].from - 1) \o reps[n]
         \o Splice(s, ms, reps, n + 1, ms[n].to)

\* text.replace(re, ...) for a regular expression with the g flag: every
\* match ms[j] replaced by reps[j]
ReplaceEach(s, ms, reps) == IF s = <<>> THEN <<>> ELSE Splice(s, ms, reps, 1, 1)

\* a replacement string of literal text and $1, $2
T(lit) == [g |-> 0, s |-> lit]
G(n) == [g |-> n, s |-> <<>>]
RECURSIVE Fill(_, _, _, _)
Fill(tpl, n, s, m) ==
    IF n > Len(tpl) THEN <<>>
    ELSE (IF tpl[n].g = 0 THEN tpl[n].s ELSE Group(s, m, tpl[n].g))
         \o Fill(tpl, n + 1, s, m)
ReplaceTpl(s, ms, tpl) ==
    ReplaceEach(s, ms, [j \in 1..Len(ms) |-> Fill(tpl, 1, s, ms[j])])
\* s.replace(re, tpl) for re with the g flag and n capturing groups
Subst(s, re, n, tpl) == ReplaceTpl(s, AllMatches(re, n, s, 1), tpl)

\* String.prototype.repeat, split and join
RECURSIVE Repeat(_, _)
Repeat(s, n) == IF n <= 0 THEN <<>> ELSE s \o Repeat(s, n - 1)
RECURSIVE Split(_, _)
Split(s, sep) ==
    LET at == IndexOfFrom(s, sep, 1)
    IN  IF at = 0 THEN <<s>>
        ELSE <<SubSeq(s, 1, at - 1)>> \o Split(SubSeq(s, at + Len(sep), Len(s)), sep)
RECURSIVE Join(_, _)
Join(parts, sep) ==
    IF parts = <<>> THEN <<>>
    ELSE IF Len(parts) = 1 THEN parts[1]
    ELSE parts[1] \o sep \o Join(Tail(parts), sep)

\* the replacement text of s.replace(pattern, repl) for a string pattern
\* found at position at: $$, $&, $ with a grave accent and $' are special, any other $ is not
RECURSIVE ExpandDollar(_, _, _, _)
ExpandDollar(repl, s, pattern, at) ==
    IF repl = <<>> THEN <<>>
    ELSE IF repl[1] = "$" /\ Len(repl) >= 2 /\ repl[2] \in {"$", "&", Backtick, "'"}
         THEN (CASE repl[2] = "$" -> <<"$">>
                 [] repl[2] = "&" -> pattern
                 [] repl[2] = Backtick -> SubSeq(s, 1, at - 1)
                 [] repl[2] = "'" -> SubSeq(s, at + Len(pattern), Len(s)))
              \o ExpandDollar(SubSeq(repl, 3, Len(repl)), s, pattern, at)
         ELSE <<repl[1]>> \o ExpandDollar(Tail(repl), s, pattern, at)

\* s.replace(pattern, repl) for a string pattern: its first occurrence
ReplaceFirstAt(s, pattern, repl, at) ==
    IF at = 0 THEN s
    ELSE SubSeq(s, 1, at - 1) \o ExpandDollar(repl, s, pattern, at)
         \o SubSeq(s, at + Len(pattern), Len(s))
ReplaceFirst(s, pattern, repl) ==
    ReplaceFirstAt(s, pattern, repl, IndexOfFrom(s, pattern, 1))

\* `__${tag}_${n}__`
Placeholder(tag, n) == <<"_","_">> \o tag \o <<"_">> \o Digits(n) \o <<"_","_">>
\* the replacements of a callback that returns the placeholder of its match
Placeholders(tag, count) == [j \in 1..count |-> Placeholder(tag, j - 1)]

\* [a-zA-Z0-9_+-]
LangChars == AlnumChars \cup {"_", "+", "-"}

\* line 15
JiraCodeRe ==
    Cat(<<Str(<<"{","c","o","d","e">>, TRUE),
          Opt(Cat(<<Lit(":"), Cap(1, Plus(OneOf(LangChars)))>>)),
          Star(Cat(<<OneOf({":", "|"}),
                     Alt(<<Str(<<"t","i","t","l","e">>, TRUE), Str(<<"b","o","r","d","e","r","S","t","y","l","e">>, TRUE),
                           Str(<<"b","o","r","d","e","r","C","o","l","o","r">>, TRUE), Str(<<"b","g","C","o","l","o","r">>, TRUE),
                           Str(<<"t","i","t","l","e","B","G","C","o","l","o","r">>, TRUE), Str(<<"t","i","t","l","e","C","o","l","o","r">>, TRUE)>>),
                     Lit("="), Plus(NoneOf({"}", "|"}))>>)),
          Lit("}"), Cap(2, LazyStar(AnyChar)), Str(<<"{","c","o","d","e","}">>, TRUE)>>)
\* line 22
NoformatRe ==
    Cat(<<Str(<<"{","n","o","f","o","r","m","a","t","}">>, TRUE), Cap(1, LazyStar(AnyChar)), Str(<<"{","n","o","f","o","r","m","a","t","}">>, TRUE)>>)
\* line 29
JiraHeadingRe ==
    Cat(<<Bol(TRUE), Lit("h"), Cap(1, OneOf({"1", "2", "3", "4", "5", "6"})), Lit("."),
          Star(OneOf(SpaceChars)), Cap(2, Plus(Dot)), Eol(TRUE)>>)
\* lines 35 and 36
BoldItalicRe == Cat(<<Str(<<"*","_">>, FALSE), Cap(1, Plus(NoneOf({"_"}))), Str(<<"_","*">>, FALSE)>>)
ItalicBoldRe == Cat(<<Str(<<"_","*">>, FALSE), Cap(1, Plus(NoneOf({"*"}))), Str(<<"*","_">>, FALSE)>>)

\* (?<![a-zA-Z0-9c])c([^\sc](?:[^c]*[^\sc])?)c(?![a-zA-Z0-9c]), lines 39, 42
Delimited(c) ==
    Cat(<<NotBehind(OneOf(AlnumChars \cup {c})), Lit(c),
          Cap(1, Cat(<<NoneOf(SpaceChars \cup {c}),
                       Opt(Cat(<<Star(NoneOf({c})), NoneOf(SpaceChars \cup {c})>>))>>)),
          Lit(c), NotAhead(OneOf(AlnumChars \cup {c}))>>)
JiraBoldRe == Delimited("*")
JiraItalicRe == Delimited("_")

\* (?<![a-zA-Z0-9c])c([^\sc][^c]*[^\sc]|[^\sc])c(?![a-zA-Z0-9c]), lines 45, 48
DelimitedAlt(c) ==
    Cat(<<NotBehind(OneOf(AlnumChars \cup {c})), Lit(c),
          Cap(1, Alt(<<Cat(<<NoneOf(SpaceChars \cup {c}), Star(NoneOf({c})),
                             NoneOf(SpaceChars \cup {c})>>),
                       NoneOf(SpaceChars \cup {c})>>)),
          Lit(c), NotAhead(OneOf(AlnumChars \cup {c}))>>)
JiraStrikeRe == DelimitedAlt("-")
JiraUnderlineRe == DelimitedAlt("+")

\* lines 51, 54, 57
SuperscriptRe == Cat(<<Lit("^"), Cap(1, Plus(NoneOf({"^"}))), Lit("^")>>)
SubscriptRe ==
    Cat(<<NotBehind(Lit("~")), Lit("~"), Cap(1, Plus(NoneOf({"~"}))), Lit("~"),
          NotAhead(Lit("~"))>>)
MonospaceRe == Cat(<<Str(<<"{","{">>, FALSE), Cap(1, Plus(NoneOf({"}"}))), Str(<<"}","}">>, FALSE)>>)

\* lines 60 and 63
NamedLinkRe ==
    Cat(<<Lit("["), Cap(1, Plus(NoneOf({"]", "|"}))), Lit("|"),
          Cap(2, Plus(NoneOf({"]"}))), Lit("]")>>)
UnnamedLinkRe == Cat(<<Lit("["), Cap(1, Plus(NoneOf({"]", "|"}))), Lit("]")>>)
\* /^https?:\/\//, line 64
HttpRe == Cat(<<Bol(FALSE), Str(<<"h","t","t","p">>, FALSE), Opt(Lit("s")), Str(<<":","/","/">>, FALSE)>>)

\* line 71, and /alt=([^,|]+)/ of line 74
JiraImageRe ==
    Cat(<<Lit("!"), Cap(1, Plus(NoneOf({"!", "|"} \cup SpaceChars))),
          Opt(Cat(<<Lit("|"), Cap(2, Plus(NoneOf({"!"})))>>)), Lit("!")>>)
AltParamRe == Cat(<<Str(<<"a","l","t","=">>, FALSE), Cap(1, Plus(NoneOf({",", "|"})))>>)

\* ^(c+)\s+(.+)$ with the m flag, lines 81 and 87
ListItemRe(c) ==
    Cat(<<Bol(TRUE), Cap(1, Plus(Lit(c))), Plus(OneOf(SpaceChars)),
          Cap(2, Plus(Dot)), Eol(TRUE)>>)
BulletRe == ListItemRe("*")
NumberedRe == ListItemRe("#")

\* lines 93, 96, 101, 110
BqRe ==
    Cat(<<Bol(TRUE), Str(<<"b","q",".">>, FALSE), Star(OneOf(SpaceChars)), Cap(1, Plus(Dot)),
          Eol(TRUE)>>)
QuoteRe == Cat(<<Str(<<"{","q","u","o","t","e","}">>, TRUE), Cap(1, LazyStar(AnyChar)), Str(<<"{","q","u","o","t","e","}">>, TRUE)>>)
PanelRe ==
    Cat(<<Str(<<"{","p","a","n","e","l">>, TRUE),
          Opt(Cat(<<Str(<<":","t","i","t","l","e","=">>, TRUE), Cap(1, Plus(NoneOf({"}", "|"})))>>)),
          Opt(Cat(<<Lit("|"), Star(NoneOf({"}"}))>>)),
          Lit("}"), Cap(2, LazyStar(AnyChar)), Str(<<"{","p","a","n","e","l","}">>, TRUE)>>)
ColorRe ==
    Cat(<<Str(<<"{","c","o","l","o","r",":">>, TRUE), Plus(NoneOf({"}"})), Lit("}"),
          Cap(1, LazyStar(AnyChar)), Str(<<"{","c","o","l","o","r","}">>, TRUE)>>)

\* line 113
JiraTableRe ==
    Cap(1, Plus(Cat(<<Bol(TRUE), Star(OneOf({"\t", " "})), Lit("|"), Plus(Dot), Lit("|"),
                      Star(OneOf({"\t", " "})), Eol(TRUE), Opt(Lit("\n"))>>)))
\* /^\|[^|]/, line 129
DataRowRe == Cat(<<Bol(FALSE), Lit("|"), NoneOf({"|"})>>)

\* lines 148, 151, 154, 155, 158, 176
JiraRuleRe == Cat(<<Bol(TRUE), Rep(Lit("-"), 4, -1, FALSE), Eol(TRUE)>>)
LineBreakRe == Cat(<<Lit("\\"), Lit("\\")>>)
AnchorRe == Cat(<<Str(<<"{","a","n","c","h","o","r",":">>, TRUE), Plus(NoneOf({"}"})), Lit("}")>>)
TocRe == Cat(<<Str(<<"{","t","o","c">>, TRUE), Opt(Cat(<<Lit(":"), Star(NoneOf({"}"}))>>)), Lit("}")>>)
JiraMentionRe == Cat(<<Str(<<"[","~">>, FALSE), Cap(1, Plus(NoneOf({"]"}))), Lit("]")>>)
EscapedBraceRe == Cat(<<Lit("\\"), Cap(1, OneOf({"{", "}"}))>>)

\* the callbacks of jiraToMarkdown, for a match m in the text s

\* lines 63-68
UnnamedLink(s, m) ==
    IF Exec(HttpRe, 0, Group(s, m, 1), 1).ok
    THEN <<"<">> \o Group(s, m, 1) \o <<">">>
    ELSE Matched(s, m)

\* lines 73-76: alt
ImageAlt(params, altMatch) == IF altMatch.ok THEN Group(params, altMatch, 1) ELSE <<>>
\* lines 71-78
JiraImage(s, m) ==
    <<"!","[">> \o (IF Group(s, m, 2) # <<>>
              THEN ImageAlt(Group(s, m, 2), Exec(AltParamRe, 1, Group(s, m, 2), 1))
              ELSE <<>>)
    \o <<"]","(">> \o Group(s, m, 1) \o <<")">>

\* lines 81-84 and 87-90, with the marker '- ' or '1. '
JiraListItem(s, m, marker) ==
    Repeat(<<" "," ">>, Len(Group(s, m, 1)) - 1) \o marker \o Group(s, m, 2)

\* content.trim().split('\n').map(line => `> ${line}`)
QuotedLines(content) ==
    LET lines == Split(Trim(content), <<"\n">>)
    IN  [j \in 1..Len(lines) |-> <<">"," ">> \o lines[j]]
\* lines 96-98
JiraQuote(s, m) == Join(QuotedLines(Group(s, m, 1)), <<"\n">>)
\* lines 101-107
JiraPanel(s, m) ==
    Join((IF Group(s, m, 1) # <<>>
          THEN <<<<">"," ","*","*">> \o Group(s, m, 1) \o <<"*","*">>, <<">">>>>
          ELSE <<>>)
         \o QuotedLines(Group(s, m, 2)),
         <<"\n">>)

\* cells.map(c => c.trim())
TrimAll(cells) == [j \in 1..Len(cells) |-> Trim(cells[j])]
\* '| ' + cells.map(c => c.trim()).join(' | ') + ' |'
TableRow(cells) == <<"|"," ">> \o Join(TrimAll(cells), <<" ","|"," ">>) \o <<" ","|">>
\* '|' + ' --- |'.repeat(colCount)
SeparatorRow(colCount) == <<"|">> \o Repeat(<<" ","-","-","-"," ","|">>, colCount)
\* the cells between the first and the last '|', line 134
InnerCells(line) ==
    LET parts == Split(line, <<"|">>)
    IN  SubSeq(parts, 2, Len(parts) - 1)

\* lines 120-138: the loop body for one line of the block; t holds
\* processedLines, needsSeparator and colCount
JiraTableLine(t, line) ==
    LET trimmedLine == Trim(line)
        cells == SelectSeq(Split(trimmedLine, <<"|","|">>), NonEmpty)
    IN  IF Includes(trimmedLine, <<"|","|">>)
        THEN [processedLines |-> Append(t.processedLines, TableRow(cells)),
              needsSeparator |-> TRUE,
              colCount |-> Len(cells)]
        ELSE IF Exec(DataRowRe, 0, trimmedLine, 1).ok
        THEN [processedLines |->
                (IF t.needsSeparator /\ Len(t.processedLines) > 0
                 THEN Append(t.processedLines, SeparatorRow(t.colCount))
                 ELSE t.processedLines)
                \o <<TableRow(InnerCells(trimmedLine))>>,
              needsSeparator |->
                IF t.needsSeparator /\ Len(t.processedLines) > 0
                THEN FALSE ELSE t.needsSeparator,
              colCount |-> t.colCount]
        ELSE t
RECURSIVE JiraTableLines(_, _, _)
JiraTableLines(lines, n, t) ==
    IF n > Len(lines) THEN t
    ELSE JiraTableLines(lines, n + 1, JiraTableLine(t, lines[n]))
\* lines 141-145
JiraTableEnd(t) ==
    Join(IF t.needsSeparator /\ Len(t.processedLines) > 0
         THEN Append(t.processedLines, SeparatorRow(t.colCount))
         ELSE t.processedLines,
         <<"\n">>)
\* lines 113-146
JiraTable(s, m) ==
    JiraTableEnd(JiraTableLines(Split(Trim(Matched(s, m)), <<"\n">>), 1,
                                [processedLines |-> <<>>, needsSeparator |-> FALSE,
                                 colCount |-> 0]))

\* s.replace(re, callback) for the callbacks above
EachUnnamedLink(s, ms) == ReplaceEach(s, ms, [j \in 1..Len(ms) |-> UnnamedLink(s, ms[j])])
EachJiraImage(s, ms) == ReplaceEach(s, ms, [j \in 1..Len(ms) |-> JiraImage(s, ms[j])])
EachJiraListItem(s, ms, marker) ==
    ReplaceEach(s, ms, [j \in 1..Len(ms) |-> JiraListItem(s, ms[j], marker)])
EachJiraQuote(s, ms) == ReplaceEach(s, ms, [j \in 1..Len(ms) |-> JiraQuote(s, ms[j])])
EachJiraPanel(s, ms) == ReplaceEach(s, ms, [j \in 1..Len(ms) |-> JiraPanel(s, ms[j])])
EachJiraTable(s, ms) == ReplaceEach(s, ms, [j \in 1..Len(ms) |-> JiraTable(s, ms[j])])

\* lines 35-57: the emphasis rules, in order
JiraEmphasis(s) ==
    Subst(Subst(Subst(Subst(Subst(Subst(Subst(Subst(Subst(s,
        BoldItalicRe, 1, <<T(<<"*","*","*">>), G(1), T(<<"*","*","*">>)>>),
        ItalicBoldRe, 1, <<T(<<"*","*","*">>), G(1), T(<<"*","*","*">>)>>),
        JiraBoldRe, 1, <<T(<<"*","*">>), G(1), T(<<"*","*">>)>>),
        JiraItalicRe, 1, <<T(<<"*">>), G(1), T(<<"*">>)>>),
        JiraStrikeRe, 1, <<T(<<"~","~">>), G(1), T(<<"~","~">>)>>),
        JiraUnderlineRe, 1, <<T(<<"<","i","n","s",">">>), G(1), T(<<"<","/","i","n","s",">">>)>>),
        SuperscriptRe, 1, <<T(<<"<","s","u","p",">">>), G(1), T(<<"<","/","s","u","p",">">>)>>),
        SubscriptRe, 1, <<T(<<"<","s","u","b",">">>), G(1), T(<<"<","/","s","u","b",">">>)>>),
        MonospaceRe, 1, <<T(<<Backtick>>), G(1), T(<<Backtick>>)>>)

\* lines 60-78: links and images
JiraNamedLinks(s) == Subst(s, NamedLinkRe, 2, <<T(<<"[">>), G(1), T(<<"]","(">>), G(2), T(<<")">>)>>)
JiraUnnamedLinks(s) == EachUnnamedLink(s, AllMatches(UnnamedLinkRe, 1, s, 1))
JiraImages(s) == EachJiraImage(s, AllMatches(JiraImageRe, 2, s, 1))
JiraLinks(s) == JiraImages(JiraUnnamedLinks(JiraNamedLinks(s)))

\* lines 81-110: lists, quotes, panels, colors
JiraBullets(s) == EachJiraListItem(s, AllMatches(BulletRe, 2, s, 1), <<"-"," ">>)
JiraNumbered(s) == EachJiraListItem(s, AllMatches(NumberedRe, 2, s, 1), <<"1","."," ">>)
JiraBq(s) == Subst(s, BqRe, 1, <<T(<<">"," ">>), G(1)>>)
JiraQuotes(s) == EachJiraQuote(s, AllMatches(QuoteRe, 1, s, 1))
JiraPanels(s) == EachJiraPanel(s, AllMatches(PanelRe, 2, s, 1))
JiraColors(s) == Subst(s, ColorRe, 1, <<G(1)>>)
JiraBlocks(s) == JiraColors(JiraPanels(JiraQuotes(JiraBq(JiraNumbered(JiraBullets(s))))))

\* lines 113-158: tables, rules, line breaks, anchors, mentions
JiraTables(s) == EachJiraTable(s, AllMatches(JiraTableRe, 1, s, 1))
JiraRest(s) ==
    Subst(Subst(Subst(Subst(Subst(JiraTables(s),
        JiraRuleRe, 0, <<T(<<"-","-","-">>)>>),
        LineBreakRe, 0, <<T(<<" ", " ", "\n">>)>>),
        AnchorRe, 0, <<>>),
        TocRe, 0, <<>>),
        JiraMentionRe, 1, <<T(<<"@">>), G(1)>>)

\* lines 35-158
JiraRules(s) == JiraRest(JiraBlocks(JiraLinks(JiraEmphasis(s))))

\* lines 161-163: headings.forEach
RECURSIVE RestoreHeadings(_, _, _)
RestoreHeadings(s, headings, n) ==
    IF n > Len(headings) THEN s
    ELSE RestoreHeadings(
            ReplaceFirst(s, Placeholder(<<"H","E","A","D","I","N","G">>, n - 1),
                         Repeat(<<"#">>, headings[n].level) \o <<" ">> \o headings[n].content),
            headings, n + 1)
\* lines 166-168: codeBlocks.forEach
RECURSIVE RestoreCodeBlocks(_, _, _)
RestoreCodeBlocks(s, codeBlocks, n) ==
    IF n > Len(codeBlocks) THEN s
    ELSE RestoreCodeBlocks(
            ReplaceFirst(s, Placeholder(<<"C","O","D","E","_","B","L","O","C","K">>, n - 1),
                         <<Backtick,Backtick,Backtick>> \o codeBlocks[n].lang \o <<"\n">>
                         \o Trim(codeBlocks[n].code) \o <<"\n">> \o <<Backtick,Backtick,Backtick>>),
            codeBlocks, n + 1)
\* lines 171-173: noformatBlocks.forEach
RECURSIVE RestoreNoformat(_, _, _)
RestoreNoformat(s, noformatBlocks, n) ==
    IF n > Len(noformatBlocks) THEN s
    ELSE RestoreNoformat(
            ReplaceFirst(s, Placeholder(<<"N","O","F","O","R","M","A","T","_","B","L","O","C","K">>, n - 1),
                         <<Backtick,Backtick,Backtick>> \o <<"\n">> \o Trim(noformatBlocks[n]) \o <<"\n">> \o <<Backtick,Backtick,Backtick>>),
            noformatBlocks, n + 1)

\* parseInt(level) for a digit
ParseDigit(c) == (CHOOSE d \in 1..10 : DigitChars[d] = c) - 1

\* lines 161-178
JiraRestore(s, headings, codeBlocks, noformatBlocks) ==
    Subst(RestoreNoformat(RestoreCodeBlocks(RestoreHeadings(s, headings, 1),
                                            codeBlocks, 1),
                          noformatBlocks, 1),
          EscapedBraceRe, 1, <<G(1)>>)

\* lines 28-32, then the rest
JiraHeadings(s, ms, codeBlocks, noformatBlocks) ==
    JiraRestore(JiraRules(ReplaceEach(s, ms, Placeholders(<<"H","E","A","D","I","N","G">>, Len(ms)))),
                [j \in 1..Len(ms) |->
                    [level |-> ParseDigit(Group(s, ms[j], 1)[1]),
                     content |-> Trim(Group(s, ms[j], 2))]],
                codeBlocks, noformatBlocks)
\* lines 21-25, then the rest
JiraNoformat(s, ms, codeBlocks) ==
    JiraHeadings(ReplaceEach(s, ms, Placeholders(<<"N","O","F","O","R","M","A","T","_","B","L","O","C","K">>, Len(ms))),
                 AllMatches(JiraHeadingRe, 2,
                            ReplaceEach(s, ms, Placeholders(<<"N","O","F","O","R","M","A","T","_","B","L","O","C","K">>, Len(ms))), 1),
                 codeBlocks,
                 [j \in 1..Len(ms) |-> Group(s, ms[j], 1)])
\* lines 14-18, then the rest
JiraCodeBlocks(s, ms) ==
    JiraNoformat(ReplaceEach(s, ms, Placeholders(<<"C","O","D","E","_","B","L","O","C","K">>, Len(ms))),
                 AllMatches(NoformatRe, 1,
                            ReplaceEach(s, ms, Placeholders(<<"C","O","D","E","_","B","L","O","C","K">>, Len(ms))), 1),
                 [j \in 1..Len(ms) |->
                    [lang |-> Group(s, ms[j], 1), code |-> Group(s, ms[j], 2)]])

\* jiraToMarkdown(jira)
JiraToMarkdown(jira) ==
    IF jira = <<>> THEN <<>>
    ELSE JiraCodeBlocks(jira, AllMatches(JiraCodeRe, 2, jira, 1))

\* markdownToJira: lines 187, 194, 200, 205, 209, 215
Fence == <<Backtick, Backtick, Backtick>>
MdCodeRe ==
    Cat(<<Str(Fence, FALSE), Cap(1, Star(OneOf(LangChars))), Opt(Lit("\n")),
          Cap(2, LazyStar(AnyChar)), Str(Fence, FALSE)>>)
InlineCodeRe == Cat(<<Lit(Backtick), Cap(1, Plus(NoneOf({Backtick}))), Lit(Backtick)>>)
MdHeadingRe ==
    Cat(<<Bol(TRUE), Cap(1, Rep(Lit("#"), 1, 6, FALSE)), Plus(OneOf(SpaceChars)),
          Cap(2, Plus(Dot)), Eol(TRUE)>>)
\* \*{n}([^*]+)\*{n}
Starred(n) ==
    Cat(<<Rep(Lit("*"), n, n, FALSE), Cap(1, Plus(NoneOf({"*"}))),
          Rep(Lit("*"), n, n, FALSE)>>)
MdBoldItalicRe == Starred(3)
MdBoldRe == Starred(2)
MdItalicRe ==
    Cat(<<NotBehind(Lit("*")), Lit("*"), Cap(1, Plus(NoneOf({"*"}))), Lit("*"),
          NotAhead(Lit("*"))>>)
\* lines 223, 226-228
MdStrikeRe == Cat(<<Str(<<"~","~">>, FALSE), Cap(1, Plus(NoneOf({"~"}))), Str(<<"~","~">>, FALSE)>>)
\* <tag>([^<]+)<\/tag> with the i flag
HtmlTagRe(tag) ==
    Cat(<<Str(<<"<">> \o tag \o <<">">>, TRUE), Cap(1, Plus(NoneOf({"<"}))),
          Str(<<"<","/">> \o tag \o <<">">>, TRUE)>>)
\* lines 231, 234, 237
MdLinkRe ==
    Cat(<<Lit("["), Cap(1, Plus(NoneOf({"]"}))), Str(<<"]","(">>, FALSE),
          Cap(2, Plus(NoneOf({")"}))), Lit(")")>>)
MdAutolinkRe ==
    Cat(<<Lit("<"),
          Cap(1, Cat(<<Str(<<"h","t","t","p">>, FALSE), Opt(Lit("s")), Str(<<":","/","/">>, FALSE),
                       Plus(NoneOf({">"}))>>)),
          Lit(">")>>)
MdImageRe ==
    Cat(<<Str(<<"!","[">>, FALSE), Cap(1, Star(NoneOf({"]"}))), Str(<<"]","(">>, FALSE),
          Cap(2, Plus(NoneOf({")"}))), Lit(")")>>)
\* line 245, and /^\|\s*[-:]+\s*\|/ of line 252
MdTableRe ==
    Cap(1, Plus(Cat(<<Bol(TRUE), Lit("|"), Plus(Dot), Lit("|"), Eol(TRUE),
                      Opt(Lit("\n"))>>)))
SeparatorRowRe ==
    Cat(<<Bol(FALSE), Lit("|"), Star(OneOf(SpaceChars)), Plus(OneOf({"-", ":"})),
          Star(OneOf(SpaceChars)), Lit("|")>>)
\* line 270, and /^>\s?/ of line 271
MdQuoteRe == Cap(1, Plus(Cat(<<Bol(TRUE), Lit(">"), Star(Dot), Eol(TRUE), Opt(Lit("\n"))>>)))
QuoteMarkRe == Cat(<<Bol(FALSE), Lit(">"), Opt(OneOf(SpaceChars))>>)
\* lines 279, 285, 291, 294
MdBulletRe ==
    Cat(<<Bol(TRUE), Cap(1, Star(Str(<<" "," ">>, FALSE))), OneOf({"-", "*"}),
          Plus(OneOf(SpaceChars)), Cap(2, Plus(Dot)), Eol(TRUE)>>)
MdNumberedRe ==
    Cat(<<Bol(TRUE), Cap(1, Star(Str(<<" "," ">>, FALSE))),
          Plus(OneOf({DigitChars[d] : d \in 1..10})), Lit("."),
          Plus(OneOf(SpaceChars)), Cap(2, Plus(Dot)), Eol(TRUE)>>)
MdRuleRe == Cat(<<Bol(TRUE), Rep(Lit("-"), 3, -1, FALSE), Eol(TRUE)>>)
MdMentionRe == Cat(<<Lit("@"), Cap(1, Plus(OneOf(AlnumChars \cup {"_", ".", "-"})))>>)

\* the callbacks of markdownToJira, for a match m in the text s

\* lines 200-202
MdHeading(s, m) == <<"h">> \o Digits(Len(Group(s, m, 1))) \o <<"."," ">> \o Group(s, m, 2)
\* lines 237-242
MdImage(s, m) ==
    IF Group(s, m, 1) # <<>>
    THEN <<"!">> \o Group(s, m, 2) \o <<"|","a","l","t","=">> \o Group(s, m, 1) \o <<"!">>
    ELSE <<"!">> \o Group(s, m, 2) \o <<"!">>

\* lines 250-264: the loop body for one line; t holds processedLines and
\* isFirstRow
MdTableLine(t, line) ==
    IF Exec(SeparatorRowRe, 0, line, 1).ok THEN t
    ELSE IF t.isFirstRow
    THEN [processedLines |->
            Append(t.processedLines,
                   <<"|","|">> \o Join(TrimAll(InnerCells(line)), <<"|","|">>) \o <<"|","|">>),
          isFirstRow |-> FALSE]
    ELSE [processedLines |->
            Append(t.processedLines,
                   <<"|">> \o Join(TrimAll(InnerCells(line)), <<"|">>) \o <<"|">>),
          isFirstRow |-> FALSE]
RECURSIVE MdTableLines(_, _, _)
MdTableLines(lines, n, t) ==
    IF n > Len(lines) THEN t
    ELSE MdTableLines(lines, n + 1, MdTableLine(t, lines[n]))
\* lines 245-267
MdTable(s, m) ==
    Join(MdTableLines(Split(Trim(Matched(s, m)), <<"\n">>), 1,
                      [processedLines |-> <<>>, isFirstRow |-> TRUE]).processedLines,
         <<"\n">>)

\* l.replace(/^>\s?/, '')
StripQuoteMark(l) ==
    LET m == Exec(QuoteMarkRe, 0, l, 1)
    IN  IF m.ok THEN SubSeq(l, m.to, Len(l)) ELSE l
\* lines 271-275, for the lines without their marks
MdQuoteOf(lines) ==
    IF Len(lines) = 1 THEN <<"b","q","."," ">> \o lines[1]
    ELSE <<"{","q","u","o","t","e","}">> \o <<"\n">> \o Join(lines, <<"\n">>) \o <<"\n">> \o <<"{","q","u","o","t","e","}">>
\* lines 270-276
MdQuote(s, m) ==
    LET lines == Split(Trim(Matched(s, m)), <<"\n">>)
    IN  MdQuoteOf([j \in 1..Len(lines) |-> StripQuoteMark(lines[j])])
\* lines 279-282 and 285-288, with the marker '*' or '#'
MdListItem(s, m, marker) ==
    Repeat(marker, (Len(Group(s, m, 1)) \div 2) + 1) \o <<" ">> \o Group(s, m, 2)

EachMdHeading(s, ms) == ReplaceEach(s, ms, [j \in 1..Len(ms) |-> MdHeading(s, ms[j])])
EachMdImage(s, ms) == ReplaceEach(s, ms, [j \in 1..Len(ms) |-> MdImage(s, ms[j])])
EachMdTable(s, ms) == ReplaceEach(s, ms, [j \in 1..Len(ms) |-> MdTable(s, ms[j])])
EachMdQuote(s, ms) == ReplaceEach(s, ms, [j \in 1..Len(ms) |-> MdQuote(s, ms[j])])
EachMdListItem(s, ms, marker) ==
    ReplaceEach(s, ms, [j \in 1..Len(ms) |-> MdListItem(s, ms[j], marker)])

\* lines 218-220: boldMatches.forEach
RECURSIVE RestoreBold(_, _, _)
RestoreBold(s, boldMatches, n) ==
    IF n > Len(boldMatches) THEN s
    ELSE RestoreBold(ReplaceFirst(s, Placeholder(<<"B","O","L","D">>, n - 1),
                                  <<"*">> \o boldMatches[n] \o <<"*">>),
                     boldMatches, n + 1)
\* lines 297-299: inlineCodes.forEach
RECURSIVE RestoreInlineCodes(_, _, _)
RestoreInlineCodes(s, inlineCodes, n) ==
    IF n > Len(inlineCodes) THEN s
    ELSE RestoreInlineCodes(ReplaceFirst(s, Placeholder(<<"I","N","L","I","N","E","_","C","O","D","E">>, n - 1),
                                         <<"{","{">> \o inlineCodes[n] \o <<"}","}">>),
                            inlineCodes, n + 1)
\* lines 302-308: codeBlocks.forEach
RECURSIVE RestoreMdCodeBlocks(_, _, _)
RestoreMdCodeBlocks(s, codeBlocks, n) ==
    IF n > Len(codeBlocks) THEN s
    ELSE RestoreMdCodeBlocks(
            ReplaceFirst(s, Placeholder(<<"C","O","D","E","_","B","L","O","C","K">>, n - 1),
                         (IF codeBlocks[n].lang # <<>>
                          THEN <<"{","c","o","d","e",":">> \o codeBlocks[n].lang \o <<"}">>
                          ELSE <<"{","c","o","d","e","}">>)
                         \o <<"\n">> \o Trim(codeBlocks[n].code) \o <<"\n">> \o <<"{","c","o","d","e","}">>),
            codeBlocks, n + 1)

\* lines 208-220: bold behind placeholders, italic, bold restored
MdBoldAndItalic(s, ms) ==
    RestoreBold(Subst(ReplaceEach(s, ms, Placeholders(<<"B","O","L","D">>, Len(ms))),
                      MdItalicRe, 1, <<T(<<"_">>), G(1), T(<<"_">>)>>),
                [j \in 1..Len(ms) |-> Group(s, ms[j], 1)], 1)
MdBold(s) == MdBoldAndItalic(s, AllMatches(MdBoldRe, 1, s, 1))

\* lines 200-220
MdHeadings(s) == EachMdHeading(s, AllMatches(MdHeadingRe, 2, s, 1))
MdEmphasis(s) ==
    MdBold(Subst(MdHeadings(s), MdBoldItalicRe, 1, <<T(<<"*","_">>), G(1), T(<<"_","*">>)>>))

\* lines 223-242
MdImages(s) == EachMdImage(s, AllMatches(MdImageRe, 2, s, 1))
MdInline(s) ==
    MdImages(Subst(Subst(Subst(Subst(Subst(Subst(s,
        MdStrikeRe, 1, <<T(<<"-">>), G(1), T(<<"-">>)>>),
        HtmlTagRe(<<"i","n","s">>), 1, <<T(<<"+">>), G(1), T(<<"+">>)>>),
        HtmlTagRe(<<"s","u","p">>), 1, <<T(<<"^">>), G(1), T(<<"^">>)>>),
        HtmlTagRe(<<"s","u","b">>), 1, <<T(<<"~">>), G(1), T(<<"~">>)>>),
        MdLinkRe, 2, <<T(<<"[">>), G(1), T(<<"|">>), G(2), T(<<"]">>)>>),
        MdAutolinkRe, 1, <<T(<<"[">>), G(1), T(<<"]">>)>>))

\* lines 245-294
MdTables(s) == EachMdTable(s, AllMatches(MdTableRe, 1, s, 1))
MdQuotes(s) == EachMdQuote(s, AllMatches(MdQuoteRe, 1, s, 1))
MdBullets(s) == EachMdListItem(s, AllMatches(MdBulletRe, 2, s, 1), <<"*">>)
MdNumbered(s) == EachMdListItem(s, AllMatches(MdNumberedRe, 2, s, 1), <<"#">>)
MdBlocks(s) ==
    Subst(Subst(MdNumbered(MdBullets(MdQuotes(MdTables(s)))),
        MdRuleRe, 0, <<T(<<"-","-","-","-">>)>>),
        MdMentionRe, 1, <<T(<<"[","~">>), G(1), T(<<"]">>)>>)

\* lines 200-294
MdRules(s) == MdBlocks(MdInline(MdEmphasis(s)))

\* lines 193-197, then the rest
MdInlineCodes(s, ms, codeBlocks) ==
    RestoreMdCodeBlocks(
        RestoreInlineCodes(
            MdRules(ReplaceEach(s, ms, Placeholders(<<"I","N","L","I","N","E","_","C","O","D","E">>, Len(ms)))),
            [j \in 1..Len(ms) |-> Group(s, ms[j], 1)], 1),
        codeBlocks, 1)
\* lines 186-190, then the rest
MdCodeBlocks(s, ms) ==
    MdInlineCodes(ReplaceEach(s, ms, Placeholders(<<"C","O","D","E","_","B","L","O","C","K">>, Len(ms))),
                  AllMatches(InlineCodeRe, 1,
                             ReplaceEach(s, ms, Placeholders(<<"C","O","D","E","_","B","L","O","C","K">>, Len(ms))), 1),
                  [j \in 1..Len(ms) |->
                     [lang |-> Group(s, ms[j], 1), code |-> Group(s, ms[j], 2)]])

\* markdownToJira(md)
MarkdownToJira(md) ==
    IF md = <<>> THEN <<>>
    ELSE MdCodeBlocks(md, AllMatches(MdCodeRe, 2, md, 1))

-----------------------------------------------------------------------------
(* The converter page (jiradown/script.js:312-378): two text panes, each
   input event converts the edited pane into the other one *)

\* a pane accepts another piece of text while it holds fewer characters
MaxTextLen == 3

\* what one edit of the Jira pane types or pastes at the end of its text
JiraPieces == {<<"*">>, <<"a">>, <<"h","1","."," ">>, <<"{","c","o","d","e","}">>}

\* what one edit of the Markdown pane types or pastes at the end of its text
MdPieces == {<<"*">>, <<"a">>, <<"#"," ">>, <<Backtick>>}

\* the texts one edit can leave in a pane that holds value: a piece typed
\* at the end, or the last character deleted
Edits(value, pieces) ==
    {value \o piece : piece \in {p \in pieces : Len(value) < MaxTextLen}}
        \cup {SubSeq(value, 1, Len(value) - 1) : n \in {k \in {1} : value # <<>>}}

\* lines 321-325
SetActivePane(pane) == activePane' = pane

\* the input listener of jiraInput that leaves the guard set (line 332
\* missing)
JiraInputGuardKept(text) ==
    /\ jiraInput' = text
    /\ lastEdited' = "jira"
    /\ IF isConverting
       THEN UNCHANGED <<mdInput, isConverting, activePane>>
       ELSE /\ SetActivePane("jira")
            /\ mdInput' = JiraToMarkdown(text)
            /\ isConverting' = TRUE
    /\ UNCHANGED <<filtered, requests, deps, valueMap, i, pc>>
    /\ UNCHANGED <<rawHar, fileName, enabledTypes, excludePatterns, showAllHeaders,
                   uploadHidden, resultsHidden, errorVisible, errorText, statsEl,
                   yamlOutput, mermaidOutput, requestsList, reads, renders, timer,
                   graph, lastRun, rerun, timeVars>>

\* lines 327-333: the user's edit has left text in the Jira pane, and the
\* input listener runs to its end
JiraInput(text) ==
    /\ jiraInput' = text
    /\ lastEdited' = "jira"
    /\ IF isConverting
       THEN UNCHANGED <<mdInput, isConverting, activePane>>
       ELSE /\ SetActivePane("jira")
            /\ mdInput' = JiraToMarkdown(text)
            /\ isConverting' = FALSE
    /\ UNCHANGED <<filtered, requests, deps, valueMap, i, pc>>
    /\ UNCHANGED <<rawHar, fileName, enabledTypes, excludePatterns, showAllHeaders,
                   uploadHidden, resultsHidden, errorVisible, errorText, statsEl,
                   yamlOutput, mermaidOutput, requestsList, reads, renders, timer,
                   graph, lastRun, rerun, timeVars>>

\* lines 335-341: the same for the Markdown pane
MdInput(text) ==
    /\ mdInput' = text
    /\ lastEdited' = "md"
    /\ IF isConverting
       THEN UNCHANGED <<jiraInput, isConverting, activePane>>
       ELSE /\ SetActivePane("md")
            /\ jiraInput' = MarkdownToJira(text)
            /\ isConverting' = FALSE
    /\ UNCHANGED <<filtered, requests, deps, valueMap, i, pc>>
    /\ UNCHANGED <<rawHar, fileName, enabledTypes, excludePatterns, showAllHeaders,
                   uploadHidden, resultsHidden, errorVisible, errorText, statsEl,
                   yamlOutput, mermaidOutput, requestsList, reads, renders, timer,
                   graph, lastRun, rerun, timeVars>>

\* lines 343-344: a pane gets the focus
Focus(pane) ==
    /\ activePane # pane
    /\ SetActivePane(pane)
    /\ UNCHANGED <<jiraInput, mdInput, isConverting, lastEdited>>
    /\ UNCHANGED <<filtered, requests, deps, valueMap, i, pc>>
    /\ UNCHANGED <<rawHar, fileName, enabledTypes, excludePatterns, showAllHeaders,
                   uploadHidden, resultsHidden, errorVisible, errorText, statsEl,
                   yamlOutput, mermaidOutput, requestsList, reads, renders, timer,
                   graph, lastRun, rerun, timeVars>>

\* lines 367-377: clearJiraBtn and clearMdBtn empty both panes and give the
\* focus to their own pane, whose focus listener runs
Clear(pane) ==
    /\ jiraInput' = <<>>
    /\ mdInput' = <<>>
    /\ SetActivePane(pane)
    /\ UNCHANGED <<isConverting, lastEdited>>
    /\ UNCHANGED <<filtered, requests, deps, valueMap, i, pc>>
    /\ UNCHANGED <<rawHar, fileName, enabledTypes, excludePatterns, showAllHeaders,
                   uploadHidden, resultsHidden, errorVisible, errorText, statsEl,
                   yamlOutput, mermaidOutput, requestsList, reads, renders, timer,
                   graph, lastRun, rerun, timeVars>>

Panes == {"jira", "md"}

InitJira ==
    /\ PageIdle
    /\ filtered = <<>>
    /\ requests = <<>>
    /\ deps = <<>>
    /\ valueMap = NewMap
    /\ i = 0
    /\ pc = "converter"

NextJira ==
    \/ \E text \in Edits(jiraInput, JiraPieces) : JiraInput(text)
    \/ \E text \in Edits(mdInput, MdPieces) : MdInput(text)
    \/ \E pane \in Panes : Focus(pane)
    \/ \E pane \in Panes : Clear(pane)

SpecJira == InitJira /\ [][NextJira]_vars

\* C11: whenever a handler of the converter page has finished, the guard
\* isConverting is false again and the pane that was not edited last holds
\* the conversion of the text of the pane that was: mdInput is
\* jiraToMarkdown(jiraInput) after an edit of the Jira pane, jiraInput is
\* markdownToJira(mdInput) after an edit of the Markdown pane
C11_OtherPaneConverted ==
    /\ isConverting = FALSE
    /\ lastEdited = "jira" => mdInput = JiraToMarkdown(jiraInput)
    /\ lastEdited = "md" => jiraInput = MarkdownToJira(mdInput)

\* an edit of the Markdown pane has been converted into a different Jira
\* text, after which the focus went back to the Jira pane
C11_Witness ==
    /\ lastEdited = "md"
    /\ activePane = "jira"
    /\ isConverting = FALSE
    /\ mdInput = <<"#"," ","a">>
    /\ jiraInput = <<"h","1","."," ","a">>

-----------------------------------------------------------------------------
(* The debounce of #excludePatterns (part_001:547, 1079-1085) *)

\* C21: while the timer of a burst of input events is set, it has not called
\* reprocess for the burst and expires DebounceMs (300 ms) after the last
\* event; once it has expired, it has called reprocess exactly once, 300 ms
\* after the last event of the burst
C21_BurstRunsOnce ==
    /\ timer => /\ burst.runs = 0
                /\ timerLeft + burst.elapsed = DebounceMs
    /\ (~timer /\ burst.events > 0) => /\ burst.runs = 1
                                       /\ burst.elapsed = DebounceMs

\* a burst of two or more events on a loaded trace has ended in one run of
\* the pipeline with the text of the last event
C21_Witness ==
    /\ ~timer
    /\ burst = [events |-> 2, elapsed |-> DebounceMs, runs |-> 1]
    /\ lastRun.ran
    /\ lastRun.text = excludePatterns
    /\ excludePatterns # <<>>

-----------------------------------------------------------------------------
(* The loaded trace (part_001:576-590) *)

-----------------------------------------------------------------------------
(* SpecCode: code blocks pasted into the Jira pane                          *)
(* (jiradown/script.js:13-18, 165-168)                                     *)

\* longest body of a pasted code block
MaxBodyLen == 3

\* the characters of the bodies
CodeChars == {"a", "*", " ", "$", "\\", "{"}

CodeBodies == UNION {[1..n -> CodeChars] : n \in 1..MaxBodyLen}

\* the language tags; the empty one: {code} without a tag
CodeLangs == {<<>>, <<"j","s">>}

\* {code:lang}body{code}
CodeBlock(lang, body) ==
    <<"{","c","o","d","e">> \o (IF lang = <<>> THEN <<>> ELSE <<":">> \o lang) \o <<"}">> \o body \o <<"{","c","o","d","e","}">>

\* the trimmed body between fences, after the language tag
Fenced(lang, body) ==
    Fence \o lang \o <<"\n">> \o Trim(body) \o <<"\n">> \o Fence

\* a block is pasted into the empty Jira pane, or a clear button is clicked
NextCode ==
    \/ /\ jiraInput = <<>>
       /\ \E lang \in CodeLangs, body \in CodeBodies : JiraInput(CodeBlock(lang, body))
    \/ \E pane \in Panes : Clear(pane)

SpecCode == InitJira /\ [][NextCode]_vars

\* C23: when the Jira pane holds one {code} block, the Markdown pane holds
\* the trimmed body of the block, unchanged, between fences with the
\* language tag of the block, whatever characters the body contains
C23_CodeBodyUnchanged ==
    \A lang \in CodeLangs, body \in CodeBodies :
        (lastEdited = "jira" /\ jiraInput = CodeBlock(lang, body))
            => mdInput = Fenced(lang, body)

-----------------------------------------------------------------------------
(* The current trace (part_001:559-571, 613-615) *)

\* C24: rawHar is null or a value with a log.entries array: a text that
\* reader.onload rejects never becomes the current trace
C24_TraceNullOrHasEntries == rawHar = JNull \/ HasEntries(rawHar)

-----------------------------------------------------------------------------
(* Justification of the edges (checked under SpecDeps) *)

\* the (path, value) pairs of the leaf strings of a parsed body, with the
\* paths written as indexValues writes them
RECURSIVE LeafPaths(_, _)
LeafPaths(obj, prefix) ==
    CASE obj.t = "arr" ->
            UNION {LeafPaths(obj.v[n], ItemPath(prefix, n - 1)) : n \in 1..Len(obj.v)}
      [] obj.t = "obj" ->
            UNION {LeafPaths(obj.v[n].val, KeyPath(prefix, obj.v[n].k)) : n \in 1..Len(obj.v)}
      [] obj.t = "str" -> {[path |-> prefix, value |-> obj.v]}
      [] OTHER -> {}

\* the (path, value) pairs of record n's structured response body
ResponseLeafPaths(n) ==
    IF IsObject(requests[n + 1].response.body)
    THEN LeafPaths(requests[n + 1].response.body, <<>>)
    ELSE {}

\* C25: for every edge, value is a leaf string of the response body of record
\* `from` found at path `via`, and value is equal to or a substring of some
\* retained header value, the URL or a body string of record `to`.
C25_EdgeJustified ==
    \A e \in Range(deps) :
        /\ [path |-> e.via, value |-> e.value] \in ResponseLeafPaths(e.from)
        /\ \E c \in CandidateStrings(e.to) : Includes(c, e.value)

\* a returned list with an edge whose value is only part of a candidate and an
\* edge whose value sits below the top level of the response body
C25_Witness ==
    /\ pc = "returned"
    /\ \E e \in Range(deps) : e.value \notin CandidateStrings(e.to)
    /\ \E e \in Range(deps) : "." \in Range(e.via) \/ "[" \in Range(e.via)

-----------------------------------------------------------------------------
(* Which records get an incoming edge (checked under SpecDeps) *)

\* the values in the Value Index
IndexedValues == {valueMap[k].key : k \in 1..Len(valueMap)}

\* the strings of record n's request, read off the record: the values of its
\* retained headers, its URL, and its body (the text of a raw body, the leaf
\* strings of a structured one)
RequestStrings(n) ==
    {requests[n + 1].headers[k].value : k \in 1..Len(requests[n + 1].headers)}
    \cup {requests[n + 1].url}
    \cup {leaf.value : leaf \in LeafPaths(requests[n + 1].body, <<>>)}

\* those of them that are long enough to be checked
LongCandidates(n) == {c \in RequestStrings(n) : Len(c) > MinValueLen}

\* C26: a record i > 0 has at least one incoming edge if and only if at least
\* one of its candidate strings (retained header values, URL, body strings,
\* length > 8) equals or contains a value that is in the Value Index when
\* record i is scanned.  (pc = "index": record i has just been scanned and the
\* index is still the one it was scanned against.)
C26_IncomingIffCandidateMatches ==
    (pc = "index" /\ i > 0) =>
        ((\E e \in Range(deps) : e.to = i)
            <=> (\E c \in LongCandidates(i), key \in IndexedValues : Includes(c, key)))

\* record 2 has just been scanned: it has an incoming edge, while record 1 had
\* long candidates and a non-empty index to look at but got none
C26_Witness ==
    /\ pc = "index"
    /\ i = 2
    /\ \E e \in Range(deps) : e.to = 2
    /\ \A e \in Range(deps) : e.to # 1
    /\ LongCandidates(1) # {}
    /\ IndexedValues # {}

-----------------------------------------------------------------------------
(* Per-source completeness (checked under SpecDeps) *)

\* the record that produced the indexed value key
ProducerOf(key) == MapGet(valueMap, key).reqIndex

\* C27: per-source completeness: for every record i > 0 and every earlier
\* record j, if some value currently indexed with producer j is equal to or
\* contained in a candidate string of record i, then the edge list contains an
\* edge from j to i.  (pc = "index": record i has just been scanned against
\* the current index.)
C27_EdgeFromEverySource ==
    (pc = "index" /\ i > 0) =>
        \A j \in 0..(i - 1) :
            (\E c \in LongCandidates(i), key \in KeysFrom(valueMap, j) : Includes(c, key))
                => EdgesBetween(j, i) # {}

\* record j produced an indexed value that a candidate string c of record i
\* equals or contains, and c is not itself a value indexed by another record
ReusedOutsideExact(j) ==
    \E c \in LongCandidates(i), key \in KeysFrom(valueMap, j) :
        /\ Includes(c, key)
        /\ MapHas(valueMap, c) => ProducerOf(c) = j

\* C27 (amended): for every record i > 0 and every earlier record j, if some
\* value currently indexed with producer j is equal to or contained in a
\* candidate string of record i that is not itself a value indexed with
\* another producer, then the edge list contains an edge from j to i.
C27_EdgeFromEverySourceOutsideExact ==
    (pc = "index" /\ i > 0) =>
        \A j \in 0..(i - 1) : ReusedOutsideExact(j) => EdgesBetween(j, i) # {}

\* record 2 has just been scanned: both earlier records are sources in the
\* sense of the amended claim and both have their edge
C27_Witness ==
    /\ pc = "index"
    /\ i = 2
    /\ ReusedOutsideExact(0) /\ ReusedOutsideExact(1)
    /\ EdgesBetween(0, 2) # {} /\ EdgesBetween(1, 2) # {}

-----------------------------------------------------------------------------
(* Shape of the diagram (checked under SpecMermaid) *)

\* the edge lines of a diagram source that stand for dependencies
DependencyEdges(g) ==
    {g[k] : k \in {j \in 1..Len(g) : g[j].kind = "edge" /\ g[j].id # <<"S","t","a","r","t">>}}

\* the nodes one reaches from the nodes of set by following edge lines
RECURSIVE ReachableFrom(_, _)
ReachableFrom(g, set) ==
    IF {g[k].to : k \in {j \in 1..Len(g) : g[j].kind = "edge" /\ g[j].id \in set}} \subseteq set
    THEN set
    ELSE ReachableFrom(g,
            set \cup {g[k].to : k \in {j \in 1..Len(g) : g[j].kind = "edge" /\ g[j].id \in set}})

\* the record index a node id stands for
IndexOfNode(id) == CHOOSE n \in 0..(MaxDiagramRecords + 1) : NodeId(n) = id

\* C28: in the diagram source, every displayed record node is reachable from
\* the Start node by following drawn edges, and the drawn dependency edges
\* form no cycle: every drawn dependency edge goes from a lower to a higher
\* record index, both below the cap of 50.
C28_ReachableAndAcyclic ==
    /\ DisplayedRecords(graph) \subseteq ReachableFrom(graph, {<<"S","t","a","r","t">>})
    /\ \A e \in DependencyEdges(graph) :
          /\ e.id \in DisplayedRecords(graph) /\ e.to \in DisplayedRecords(graph)
          /\ IndexOfNode(e.id) < IndexOfNode(e.to)
          /\ IndexOfNode(e.to) < maxNodes

\* a drawn diagram of more records than the cap, in which some record is
\* reached from Start only through a dependency edge, and a dependency that
\* ends beyond the cap is left out
C28_Witness ==
    /\ pc = "drawn"
    /\ Len(requests) > maxNodes
    /\ DisplayedRecords(graph) \ StartAnchored(graph) # {}
    /\ Cardinality(DependencyEdges(graph)) > 1
    /\ \E k \in 1..Len(deps) : deps[k].to >= maxNodes

-----------------------------------------------------------------------------
(* SpecLoads: two traces handed to the page one after the other, their     *)
(* reads completing in any order                                           *)

\* a second trace, of other transactions
FileB == [name |-> <<"b",".","h","a","r">>,
          text |-> [parsed |-> TRUE, json |-> Har(<<ELogin, EOnce>>)]]

LoadFiles == {FileA, FileB}

NextLoads ==
    \/ \E file \in LoadFiles : HandleFile(file)
    \/ \E file \in LoadFiles : ReaderOnload(file)
    \/ ToggleAllHeaders
    \/ \E g \in renders, ok \in BOOLEAN : RenderSettle(g, ok)

SpecLoads == Init /\ [][NextLoads]_vars

\* C29: when handleFile is called for two .har files in quick succession and
\* both asynchronous reads have completed (in either order), the file name
\* shown in the stats and in the document header and the trace whose results
\* are shown belong to the same file.
C29_NameAndTraceOfSameFile ==
    (reads = {} /\ ~resultsHidden) =>
        \E file \in LoadFiles :
            /\ statsEl.fileName = file.name
            /\ yamlOutput.source = file.name
            /\ rawHar = file.text.json

-----------------------------------------------------------------------------
(* Events after resetUI (checked under SpecSettings) *)

\* the page as resetUI leaves it, for as long as process() has not run again
AfterReset ==
    /\ lastRun = NoRun
    /\ resultsHidden
    /\ ~uploadHidden

\* a change event of a filter checkbox, or the expiry of the debounce timer
FilterEvent ==
    \/ \E type \in ToggleTypes : ToggleType(type)
    \/ ToggleAllHeaders
    \/ DebounceFire

====
